---- MODULE Spec2Model ----
(***************************************************************************)
(* A model of node-btc-trace: a REST gateway in front of one Bitcoin Core  *)
(* JSON-RPC node.  Two parts:                                              *)
(*   - the hash-suffix codec of src/utils/generals.js (a pure function),   *)
(*     explored under SpecCodec;                                           *)
(*   - the life of an inbound request through a service handler, the axios *)
(*     client of src/config/btcNodeConfig.js and the error handler of      *)
(*     src/errors/errorResponseHandler.js, explored under Spec / FairSpec. *)
(* Strings are sequences of one-character strings, so that lengths,        *)
(* slices and digit conversions are computed, not assumed.                 *)
(***************************************************************************)
EXTENDS Integers, Sequences, FiniteSets, TLC

VARIABLES
    hexHash,    \* codec: the argument of getHexSuffixDecimals
    decimals,   \* codec: what the call produced (NotCalled before the call)
    envConfig,  \* the validated configuration, process-wide
    pc,         \* per inbound request: where its handling stands
    req,        \* per inbound request: the endpoint and the raw input
    posts,      \* per inbound request: the payloads posted upstream, in order
    upstream,   \* per inbound request: what became of its post
    err,        \* per inbound request: the error thrown, on its way to next(err)
    res,        \* per inbound request: the responses sent, in order
    log         \* per inbound request: the records given to logger.error

codecVars == <<hexHash, decimals>>
gatewayVars == <<envConfig, pc, req, posts, upstream, err, res, log>>
vars == <<hexHash, decimals, envConfig, pc, req, posts, upstream, err, res, log>>

(***************************************************************************)
(* Strings                                                                 *)
(***************************************************************************)

\* The string made of n copies of the character c.
Rep(c, n) == [i \in 1..n |-> c]

HexDigits == <<"0", "1", "2", "3", "4", "5", "6", "7",
               "8", "9", "a", "b", "c", "d", "e", "f">>

DecDigits == <<"0", "1", "2", "3", "4", "5", "6", "7", "8", "9">>

\* The value of a hexadecimal digit character, upper or lower case; -1 for
\* any other character.
HexVal(c) ==
    CASE c = "A" -> 10 [] c = "B" -> 11 [] c = "C" -> 12
      [] c = "D" -> 13 [] c = "E" -> 14 [] c = "F" -> 15
      [] \E i \in 1..16 : HexDigits[i] = c ->
            (CHOOSE i \in 1..16 : HexDigits[i] = c) - 1
      [] OTHER -> -1

IsHexChar(c) == HexVal(c) >= 0

(***************************************************************************)
(* BigInt: an arbitrary-precision natural, kept as its decimal digits,     *)
(* most significant first, without leading zeros (zero is <<0>>).          *)
(***************************************************************************)

RECURSIVE MulAddRev(_, _, _)
\* digits least significant first: digits * m + carry
MulAddRev(rev, m, carry) ==
    IF rev = <<>>
    THEN IF carry = 0 THEN <<>>
         ELSE <<carry % 10>> \o MulAddRev(<<>>, m, carry \div 10)
    ELSE LET t == Head(rev) * m + carry
         IN  <<t % 10>> \o MulAddRev(Tail(rev), m, t \div 10)

Reverse(s) == [i \in 1..Len(s) |-> s[Len(s) + 1 - i]]

\* big * m + a, for small naturals m and a
BigMulAdd(big, m, a) ==
    LET r == Reverse(MulAddRev(Reverse(big), m, a))
    IN  IF big = <<0>> THEN (IF a < 10 THEN <<a>> ELSE <<a \div 10, a % 10>>)
        ELSE r

RECURSIVE BigFromHex(_, _)
\* Horner's rule over the hexadecimal digits of s, from the accumulator acc
BigFromHex(s, acc) ==
    IF s = <<>> THEN acc
    ELSE BigFromHex(Tail(s), BigMulAdd(acc, 16, HexVal(Head(s))))

\* BigInt('0x' + hexPart): a SyntaxError when hexPart is empty or holds a
\* character that is no hexadecimal digit.
BigIntOfHex(hexPart) ==
    IF hexPart = <<>> \/ \E i \in 1..Len(hexPart) : ~IsHexChar(hexPart[i])
    THEN [threw |-> TRUE, big |-> <<0>>]
    ELSE [threw |-> FALSE, big |-> BigFromHex(hexPart, <<0>>)]

\* BigInt.prototype.toString(): the decimal string
BigToString(big) == [i \in 1..Len(big) |-> DecDigits[big[i] + 1]]

(***************************************************************************)
(* getHexSuffixDecimals                                                    *)
(***************************************************************************)

MaxSuffixLen == 16

\* const suffixLengths = { u4: 1, ..., u64: 16 }, in insertion order
suffixLengths ==
    <<[range |-> "u4", len |-> 1],   [range |-> "u8", len |-> 2],
      [range |-> "u12", len |-> 3],  [range |-> "u16", len |-> 4],
      [range |-> "u20", len |-> 5],  [range |-> "u24", len |-> 6],
      [range |-> "u28", len |-> 7],  [range |-> "u32", len |-> 8],
      [range |-> "u36", len |-> 9],  [range |-> "u40", len |-> 10],
      [range |-> "u44", len |-> 11], [range |-> "u48", len |-> 12],
      [range |-> "u52", len |-> 13], [range |-> "u56", len |-> 14],
      [range |-> "u60", len |-> 15], [range |-> "u64", len |-> 16]>>

\* A mutant of HexSlice: the first len characters instead of the last.
HexSlicePrefix(s, len) == SubSeq(s, 1, IF len < Len(s) THEN len ELSE Len(s))

\* hexHash.slice(-len): the last len characters, the whole string when it is
\* shorter than len
HexSlice(s, len) ==
    SubSeq(s, (IF Len(s) - len > 0 THEN Len(s) - len ELSE 0) + 1, Len(s))

\* A mutant of SuffixEntries: only the suffix lengths the input can fill.
SuffixEntriesUpToLen(s) == {i \in 1..Len(suffixLengths) : suffixLengths[i].len <= Len(s)}

\* Object.entries(suffixLengths): the entries the loop visits for an input s
SuffixEntries(s) == 1..Len(suffixLengths)

\* The call: one entry per visited range; the first BigInt that throws ends
\* the call with that SyntaxError and no table.
getHexSuffixDecimals(s) ==
    LET conv == [i \in SuffixEntries(s) |->
                    BigIntOfHex(HexSlice(s, suffixLengths[i].len))]
    IN  IF \E i \in DOMAIN conv : conv[i].threw
        THEN [threw |-> TRUE, table |-> <<>>]
        ELSE [threw |-> FALSE,
              table |-> [i \in DOMAIN conv |->
                           [range   |-> suffixLengths[i].range,
                            len     |-> suffixLengths[i].len,
                            decimal |-> BigToString(conv[i].big)]]]

(***************************************************************************)
(* JSON values, as the handlers see them in req.params, req.query,         *)
(* req.body and in the upstream's answer.  Every value is a record tagged  *)
(* by k.  A number is n, or n plus a fraction when frac is TRUE.           *)
(***************************************************************************)

Undefined == [k |-> "undefined"]
Null      == [k |-> "null"]
Str(s)    == [k |-> "string", s |-> s]
Num(n)    == [k |-> "number", n |-> n, frac |-> FALSE]
Frac(n)   == [k |-> "number", n |-> n, frac |-> TRUE]
Bool(b)   == [k |-> "boolean", b |-> b]
Arr(a)    == [k |-> "array", a |-> a]
Obj(f)    == [k |-> "object", f |-> f]

\* The characters of a short literal
Chars(lit) ==
    CASE lit = "true"  -> <<"t", "r", "u", "e">>
      [] lit = "false" -> <<"f", "a", "l", "s", "e">>
      [] lit = "no"    -> <<"n", "o">>
      [] lit = "abc"   -> <<"a", "b", "c">>
      [] lit = "start" -> <<"s", "t", "a", "r", "t">>
      [] lit = "UNSET" -> <<"U", "N", "S", "E", "T">>
      [] lit = "ECONOMICAL"   -> <<"E", "C", "O", "N", "O", "M", "I", "C", "A", "L">>
      [] lit = "CONSERVATIVE" -> <<"C", "O", "N", "S", "E", "R", "V", "A", "T", "I", "V", "E">>
      [] lit = "addr(" -> <<"a", "d", "d", "r", "(">>
      [] lit = ")"     -> <<")">>
      [] lit = "production"  -> <<"p", "r", "o", "d", "u", "c", "t", "i", "o", "n">>
      [] lit = "development" -> <<"d", "e", "v", "e", "l", "o", "p", "m", "e", "n", "t">>

\* A mutant of IsLiteral: no value is the literal.
IsLiteralNever(x, lit) == FALSE

\* x === 'lit'
IsLiteral(x, lit) == x.k = "string" /\ x.s = Chars(lit)

DecVal(c) == IF \E i \in 1..10 : DecDigits[i] = c
             THEN (CHOOSE i \in 1..10 : DecDigits[i] = c) - 1 ELSE -1

IsDigits(s) == s # <<>> /\ \A i \in 1..Len(s) : DecVal(s[i]) >= 0

RECURSIVE NatOfDigits(_, _)
NatOfDigits(s, acc) ==
    IF s = <<>> THEN acc ELSE NatOfDigits(Tail(s), acc * 10 + DecVal(Head(s)))

IndexOf(s, c) == IF \E i \in 1..Len(s) : s[i] = c
                 THEN CHOOSE i \in 1..Len(s) : s[i] = c /\ \A j \in 1..(i - 1) : s[j] # c
                 ELSE 0

\* Joi's conversion of a string to a number: an optional sign, digits, and an
\* optional fraction; anything else is no number (number.base).
NumberOfString(s) ==
    LET neg  == s # <<>> /\ Head(s) = "-"
        body == IF neg THEN Tail(s) ELSE s
        dot  == IndexOf(body, ".")
        int  == IF dot = 0 THEN body ELSE SubSeq(body, 1, dot - 1)
        fr   == IF dot = 0 THEN <<>> ELSE SubSeq(body, dot + 1, Len(body))
        ok   == IsDigits(int) /\ (dot = 0 \/ IsDigits(fr))
        mag  == NatOfDigits(int, 0)
        part == dot # 0 /\ \E i \in 1..Len(fr) : fr[i] # "0"
    IN  IF ~ok THEN [ok |-> FALSE, v |-> Undefined]
        ELSE [ok |-> TRUE,
              v  |-> [k    |-> "number",
                      n    |-> IF neg THEN (IF part THEN 0 - mag - 1 ELSE 0 - mag) ELSE mag,
                      frac |-> part]]

\* The letters, for the regular expressions that carry the flag i.
UpperLetters == <<"A", "B", "C", "D", "E", "F", "G", "H", "I", "J", "K", "L", "M", "N", "O", "P", "Q", "R", "S", "T", "U", "V", "W", "X", "Y", "Z">>
LowerLetters == <<"a", "b", "c", "d", "e", "f", "g", "h", "i", "j", "k", "l", "m", "n", "o", "p", "q", "r", "s", "t", "u", "v", "w", "x", "y", "z">>

ToLower(c) ==
    IF IndexOf(UpperLetters, c) # 0 THEN LowerLetters[IndexOf(UpperLetters, c)] ELSE c

LowerCase(s) == [i \in 1..Len(s) |-> ToLower(s[i])]

IsLetter(c) == IndexOf(LowerLetters, c) # 0
IsAlnum(c) == IsLetter(c) \/ DecVal(c) >= 0

StartsWith(s, prefix) ==
    Len(s) >= Len(prefix) /\ SubSeq(s, 1, Len(prefix)) = prefix

\* ([a-z0-9]+([-.][a-z0-9]+)*\.[a-z]{2,}): labels of letters and digits
\* joined by single dots or dashes, closed by a dot and two letters or more.
IsDomainName(h) ==
    \E d \in 2..(Len(h) - 2) :
        /\ h[d] = "."
        /\ \A i \in (d + 1)..Len(h) : IsLetter(h[i])
        /\ IsAlnum(h[1]) /\ IsAlnum(h[d - 1])
        /\ \A i \in 1..(d - 1) : IsAlnum(h[i]) \/ h[i] \in {"-", "."}
        /\ \A i \in 1..(d - 2) : ~(h[i] \in {"-", "."} /\ h[i + 1] \in {"-", "."})

\* (\d{1,3}(\.\d{1,3}){3}): four groups of one to three digits.
IsIPv4(h) ==
    \E a, b, c \in 1..Len(h) :
        /\ a < b /\ b < c
        /\ \A i \in 1..Len(h) : IF i \in {a, b, c} THEN h[i] = "." ELSE DecVal(h[i]) >= 0
        /\ {a - 1, b - a - 1, c - b - 1, Len(h) - c} \subseteq 1..3

\* (\[[0-9a-fA-F:]+\])
IsIPv6(h) ==
    /\ Len(h) >= 3
    /\ h[1] = "[" /\ h[Len(h)] = "]"
    /\ \A i \in 2..(Len(h) - 1) : h[i] = ":" \/ HexVal(ToLower(h[i])) >= 0

\* (\:\d{1,5})?
IsPortSuffix(p) ==
    \/ p = <<>>
    \/ /\ Len(p) \in 2..6
       /\ p[1] = ":"
       /\ \A i \in 2..Len(p) : DecVal(p[i]) >= 0

\* isHostSyntaxValid: http:// or https://, then localhost, a domain name, an
\* IPv4 address or a bracketed IPv6 address, then an optional port; the
\* whole string, letters in either case.
isHostSyntaxValid(host) ==
    LET s    == LowerCase(host)
        http == <<"h", "t", "t", "p", ":", "/", "/">>
        tls  == <<"h", "t", "t", "p", "s", ":", "/", "/">>
        rest == IF StartsWith(s, http) THEN SubSeq(s, Len(http) + 1, Len(s))
                ELSE IF StartsWith(s, tls) THEN SubSeq(s, Len(tls) + 1, Len(s))
                ELSE <<>>
    IN  /\ StartsWith(s, http) \/ StartsWith(s, tls)
        /\ \E n \in 1..Len(rest) :
              /\ IsPortSuffix(SubSeq(rest, n + 1, Len(rest)))
              /\ LET h == SubSeq(rest, 1, n)
                 IN  \/ h = <<"l", "o", "c", "a", "l", "h", "o", "s", "t">>
                     \/ IsDomainName(h)
                     \/ IsIPv4(h)
                     \/ IsIPv6(h)

(***************************************************************************)
(* Joi.  A schema is the sequence of its keys, in declaration order; a key *)
(* has a type, is required or optional, may have a default, and carries    *)
(* its rules in the order they were chained.  A violation is the key and   *)
(* the Joi error type; its message is a function of the two.               *)
(***************************************************************************)

Key(name, type, required, rules) ==
    [name |-> name, type |-> type, required |-> required, rules |-> rules,
     hasDefault |-> FALSE, default |-> Undefined]

WithDefault(key, d) == [key EXCEPT !.hasDefault = TRUE, !.default = d]

\* index is the position in an array value, 0 for the key itself
Violation(name, index, type) == [path |-> name, index |-> index, type |-> type]

\* /^([0-9a-fA-F]{66}|[0-9a-fA-F]{130})$/
PubKeyPattern(s) ==
    /\ Len(s) \in {66, 130}
    /\ \A i \in 1..Len(s) : IsHexChar(s[i])

\* The value after Joi's conversion to the key's type, and whether it has it.
Coerce(type, x) ==
    CASE type = "number" /\ x.k = "number" -> [ok |-> TRUE, v |-> x]
      [] type = "number" /\ x.k = "string" -> NumberOfString(x.s)
      [] type = "boolean" /\ x.k = "boolean" -> [ok |-> TRUE, v |-> x]
      [] type = "boolean" /\ IsLiteral(x, "true")  -> [ok |-> TRUE, v |-> Bool(TRUE)]
      [] type = "boolean" /\ IsLiteral(x, "false") -> [ok |-> TRUE, v |-> Bool(FALSE)]
      [] type = "string" /\ x.k = "string" -> [ok |-> TRUE, v |-> x]
      [] type = "array" /\ x.k = "array" -> [ok |-> TRUE, v |-> x]
      [] type = "object" /\ x.k = "object" -> [ok |-> TRUE, v |-> x]
      [] OTHER -> [ok |-> FALSE, v |-> x]

\* Whether one element of an array is what the array's items() schema asks:
\*   pubkey      Joi.string().pattern(/^([0-9a-fA-F]{66}|[0-9a-fA-F]{130})$/)
\*   index       Joi.number().integer().min(0)
\*   host        Joi.string().custom(isHostSyntaxValid, else any.invalid)
\*   scanobject  Joi.object({desc: Joi.string().required(), range: Joi.number().optional()})
ItemOk(of, item) ==
    CASE of = "pubkey" -> item.k = "string" /\ PubKeyPattern(item.s)
      [] of = "index"  -> /\ Coerce("number", item).ok
                          /\ ~Coerce("number", item).v.frac
                          /\ Coerce("number", item).v.n >= 0
      [] of = "host"   -> /\ item.k = "string" /\ item.s # <<>>
                          /\ isHostSyntaxValid(item.s)
      [] of = "scanobject" ->
            /\ item.k = "object"
            /\ item.f.desc.k = "string" /\ item.f.desc.s # <<>>
            /\ (item.f.range.k = "undefined" \/ Coerce("number", item.f.range).ok)

\* A mutant of Breaks: a number is never above its maximum.
BreaksNoNumberMax(rule, v) ==
    CASE rule.r = "length"  /\ v.k = "string" -> Len(v.s) # rule.n
      [] rule.r = "length"  /\ v.k = "array"  -> Len(v.a) # rule.n
      [] rule.r = "min"     /\ v.k = "number" -> v.n < rule.n
      [] rule.r = "min"     /\ v.k = "array"  -> Len(v.a) < rule.n
      [] rule.r = "max"     /\ v.k = "array"  -> Len(v.a) > rule.n
      [] rule.r = "integer" -> v.frac
      [] OTHER -> FALSE

\* Whether the converted value v breaks a rule other than items.
Breaks(rule, v) ==
    CASE rule.r = "length"  /\ v.k = "string" -> Len(v.s) # rule.n
      [] rule.r = "length"  /\ v.k = "array"  -> Len(v.a) # rule.n
      [] rule.r = "min"     /\ v.k = "number" -> v.n < rule.n
      [] rule.r = "min"     /\ v.k = "array"  -> Len(v.a) < rule.n
      [] rule.r = "max"     /\ v.k = "number" -> v.n > rule.n \/ (v.n = rule.n /\ v.frac)
      [] rule.r = "max"     /\ v.k = "array"  -> Len(v.a) > rule.n
      [] rule.r = "integer" -> v.frac
      [] OTHER -> FALSE

RuleType(type, rule) ==
    IF rule.r = "integer" THEN "number.integer"
    ELSE IF type = "number" /\ rule.r = "min" THEN "number.min"
    ELSE IF type = "number" /\ rule.r = "max" THEN "number.max"
    ELSE IF type = "string" /\ rule.r = "length" THEN "string.length"
    ELSE IF type = "array" /\ rule.r = "min" THEN "array.min"
    ELSE IF type = "array" /\ rule.r = "max" THEN "array.max"
    ELSE "array.length"

RECURSIVE ItemViolations(_, _, _, _)
\* One violation per element of the array that its items() schema rejects.
ItemViolations(name, of, a, i) ==
    IF i > Len(a) THEN <<>>
    ELSE (IF ItemOk(of, a[i]) THEN <<>> ELSE <<Violation(name, i, "items")>>)
         \o ItemViolations(name, of, a, i + 1)

RECURSIVE RuleViolations(_, _, _)
RuleViolations(key, rules, v) ==
    IF rules = <<>> THEN <<>>
    ELSE (IF Head(rules).r = "items"
          THEN ItemViolations(key.name, Head(rules).of, v.a, 1)
          ELSE IF Breaks(Head(rules), v)
          THEN <<Violation(key.name, 0, RuleType(key.type, Head(rules)))>>
          ELSE <<>>) \o RuleViolations(key, Tail(rules), v)

\* The value of one key after validation: the converted value, the default
\* of an absent key, or the value as given when it does not convert.
KeyValue(key, x) ==
    IF x.k = "undefined" THEN (IF key.hasDefault THEN key.default ELSE x)
    ELSE Coerce(key.type, x).v

\* Every constraint of the key that x violates, in the order Joi checks them:
\* presence, then valid(...) (a listed value is accepted at once), then the
\* type itself (a value of the wrong type is not checked against the rules),
\* then the rules in the order they were chained.
KeyViolations(key, x) ==
    IF x.k = "undefined"
    THEN IF key.required THEN <<Violation(key.name, 0, "any.required")>> ELSE <<>>
    ELSE LET c    == Coerce(key.type, x)
             only == {i \in 1..Len(key.rules) : key.rules[i].r = "valid"}
             rest == IF key.type = "string" /\ x.k = "string" /\ x.s = <<>>
                     THEN <<Violation(key.name, 0, "string.empty")>>
                     ELSE IF ~c.ok
                     THEN <<Violation(key.name, 0, key.type \o ".base")>>
                     ELSE RuleViolations(key, key.rules, c.v)
         IN  IF only = {} THEN rest
             ELSE IF c.ok /\ \A i \in only : c.v \in key.rules[i].set THEN <<>>
             ELSE <<Violation(key.name, 0, "any.only")>> \o rest

RECURSIVE SchemaViolations(_, _)
\* The keys of the schema, in order; obj maps each key name to its value.
SchemaViolations(schema, obj) ==
    IF schema = <<>> THEN <<>>
    ELSE KeyViolations(Head(schema), obj[Head(schema).name])
         \o SchemaViolations(Tail(schema), obj)

\* Keys of the validated object that the schema does not declare
\* (object.unknown): obj.extra says whether the object carries one.
UnknownViolations(obj) ==
    IF obj.extra THEN <<Violation("extra", 0, "object.unknown")>> ELSE <<>>

\* Every violation of the object, as Joi lists them with abortEarly: false.
AllViolations(schema, obj) == SchemaViolations(schema, obj) \o UnknownViolations(obj)

\* error.details of schema.validate(obj): the handlers pass no options, so
\* Joi's default abortEarly: true stops at the first violation.
JoiDetails(schema, obj) ==
    LET all == AllViolations(schema, obj)
    IN  IF all = <<>> THEN <<>> ELSE <<Head(all)>>

\* value of schema.validate(obj), when there is no error
JoiValue(schema, obj) ==
    [name \in {schema[i].name : i \in 1..Len(schema)} |->
        KeyValue(CHOOSE key \in {schema[i] : i \in 1..Len(schema)} : key.name = name,
                 obj[name])]

(***************************************************************************)
(* The endpoints: one service handler each.                                *)
(***************************************************************************)

\* Handlers that build a payload and post it, with no input of their own.
NoInputEndpoints ==
    {"blockchain.getChainInfo", "blockchain.getGetBestblockhash",
     "blockchain.getBlockCount", "blockchain.getChainTips",
     "blockchain.getDifficulty", "blockchain.getMempoolInfo",
     "network.getConnectionCount", "network.getNetTotals",
     "network.getNetworkInfo", "network.getPeerInfo",
     "mining.getMiningInfo", "mining.getNetworkHashRate",
     "control.getRpcInfo", "util.getIndexInfo"}

\* Handlers that validate their input against a Joi schema first.
SchemaEndpoints ==
    {"blockchain.getBlock", "blockchain.getBlockHash",
     "blockchain.getBlockHashDecimals", "blockchain.getBlockHeader",
     "blockchain.getBlockStats", "blockchain.getChainTxStats",
     "blockchain.getMempoolAncestors", "blockchain.getMempoolDescendants",
     "blockchain.getMempoolEntry", "blockchain.getRawMempool",
     "blockchain.getTxOut", "blockchain.getTxOutProof",
     "blockchain.scanUTXOSet", "blockchain.verifyTxOutProof",
     "network.getNodeAddresses", "wallet.getBalanceByAddress",
     "util.createMultisig", "util.deriveAddresses", "util.estimateSmartFee",
     "util.getDescriptorInfo", "util.validateAddress", "util.verifyMessage",
     "util.getBlockHashDecimals"}

Endpoints == NoInputEndpoints \cup SchemaEndpoints

\* Handlers that hand Joi the whole of req.query or req.body (getBlock: the
\* merge of req.params and req.query), so that a key the schema does not
\* declare reaches the validation.
WholeObjectEndpoints ==
    {"blockchain.getBlock", "blockchain.scanUTXOSet", "blockchain.verifyTxOutProof",
     "wallet.getBalanceByAddress", "util.createMultisig", "util.deriveAddresses",
     "util.estimateSmartFee", "util.getDescriptorInfo", "util.validateAddress",
     "util.verifyMessage", "util.getBlockHashDecimals"}

HashLength == 64

\* A mutant of HashKey: a string of any length.
HashKeyAnyLength(name, required) == Key(name, "string", required, <<>>)

HashKey(name, required) ==
    Key(name, "string", required, <<[r |-> "length", n |-> HashLength]>>)

HeightKey(name) ==
    Key(name, "number", TRUE, <<[r |-> "integer"], [r |-> "min", n |-> 0]>>)

\* The Joi.object({...}) of each handler, its keys in declaration order.
Schema(ep) ==
    CASE ep = "blockchain.getBlock" ->
            <<HashKey("blockhash", TRUE),
              Key("verbosity", "number", FALSE,
                  <<[r |-> "valid", set |-> {Num(0), Num(1), Num(2)}]>>)>>
      [] ep = "blockchain.getBlockHash" -> <<HeightKey("count")>>
      [] ep = "blockchain.getBlockHashDecimals" -> <<HeightKey("height")>>
      [] ep = "blockchain.getBlockHeader" ->
            <<HashKey("blockhash", TRUE), Key("verbose", "boolean", FALSE, <<>>)>>
      [] ep = "blockchain.getBlockStats" -> <<HeightKey("height")>>
      [] ep = "blockchain.getChainTxStats" ->
            <<Key("nblocks", "number", FALSE, <<[r |-> "integer"], [r |-> "min", n |-> 1]>>),
              HashKey("blockhash", FALSE)>>
      [] ep \in {"blockchain.getMempoolAncestors", "blockchain.getMempoolDescendants"} ->
            <<HashKey("txid", TRUE), Key("verbose", "boolean", FALSE, <<>>)>>
      [] ep = "blockchain.getMempoolEntry" -> <<HashKey("txid", TRUE)>>
      [] ep = "blockchain.getRawMempool" -> <<Key("verbose", "boolean", FALSE, <<>>)>>
      [] ep = "blockchain.getTxOut" ->
            <<HashKey("txid", TRUE), HeightKey("index"),
              Key("include_mempool", "boolean", FALSE, <<>>)>>
      [] ep = "blockchain.getTxOutProof" ->
            <<HashKey("txid", TRUE), HashKey("blockhash", FALSE)>>
      [] ep = "blockchain.scanUTXOSet" ->
            <<Key("scanobjects", "array", TRUE,
                  <<[r |-> "items", of |-> "scanobject"], [r |-> "min", n |-> 1]>>)>>
      [] ep = "blockchain.verifyTxOutProof" -> <<Key("proof", "string", TRUE, <<>>)>>
      [] ep = "network.getNodeAddresses" ->
            <<WithDefault(Key("count", "number", FALSE,
                              <<[r |-> "integer"], [r |-> "min", n |-> 1],
                                [r |-> "max", n |-> 1000]>>), Num(10))>>
      [] ep = "wallet.getBalanceByAddress" -> <<Key("address", "string", TRUE, <<>>)>>
      [] ep = "util.createMultisig" ->
            <<Key("nRequired", "number", TRUE,
                  <<[r |-> "integer"], [r |-> "min", n |-> 1], [r |-> "max", n |-> 20]>>),
              Key("keys", "array", TRUE,
                  <<[r |-> "items", of |-> "pubkey"], [r |-> "min", n |-> 2],
                    [r |-> "max", n |-> 20]>>)>>
      [] ep = "util.deriveAddresses" ->
            <<Key("descriptor", "string", TRUE, <<>>),
              Key("range", "array", FALSE,
                  <<[r |-> "items", of |-> "index"], [r |-> "length", n |-> 2]>>)>>
      [] ep = "util.estimateSmartFee" ->
            <<Key("confTarget", "number", TRUE, <<[r |-> "integer"], [r |-> "min", n |-> 1]>>),
              WithDefault(Key("estimateMode", "string", FALSE,
                              <<[r |-> "valid",
                                 set |-> {Str(Chars("UNSET")), Str(Chars("ECONOMICAL")),
                                          Str(Chars("CONSERVATIVE"))}]>>),
                          Str(Chars("CONSERVATIVE")))>>
      [] ep = "util.getDescriptorInfo" -> <<Key("descriptor", "string", TRUE, <<>>)>>
      [] ep = "util.validateAddress" -> <<Key("address", "string", TRUE, <<>>)>>
      [] ep = "util.verifyMessage" ->
            <<Key("address", "string", TRUE, <<>>), Key("signature", "string", TRUE, <<>>),
              Key("message", "string", TRUE, <<>>)>>
      [] ep = "util.getBlockHashDecimals" -> <<Key("hash", "string", TRUE, <<>>)>>
      [] OTHER -> <<>>

KeyNames(ep) == {Schema(ep)[i].name : i \in 1..Len(Schema(ep))}

\* A mutant of OrDefault: no default is applied.
OrDefaultNone(x, d) == x

\* x ?? d and the default of a destructuring: d when x is undefined
OrDefault(x, d) == IF x.k = "undefined" THEN d ELSE x

\* The object a handler hands to schema.validate, from the raw request.
PreValidate(ep, raw) ==
    CASE ep \in {"blockchain.getBlockHeader", "blockchain.getMempoolAncestors",
                 "blockchain.getMempoolDescendants"} ->
            \* const { verbose = true } = req.query; verbose === 'false' ? false : true
            [raw EXCEPT !.verbose = Bool(~IsLiteral(OrDefault(raw.verbose, Bool(TRUE)), "false")),
                        !.extra = FALSE]
      [] ep = "blockchain.getTxOut" ->
            [raw EXCEPT !.include_mempool =
                            Bool(~IsLiteral(OrDefault(raw.include_mempool, Bool(TRUE)), "false")),
                        !.extra = FALSE]
      [] ep = "blockchain.getRawMempool" ->
            \* const { verbose = false } = req.query; verbose === 'true' || verbose === true
            LET v == OrDefault(raw.verbose, Bool(FALSE))
            IN  [raw EXCEPT !.verbose = Bool(IsLiteral(v, "true") \/ v = Bool(TRUE)),
                            !.extra = FALSE]
      [] ep = "network.getNodeAddresses" ->
            \* const { count = 10 } = req.query
            [raw EXCEPT !.count = OrDefault(raw.count, Num(10)), !.extra = FALSE]
      [] ep \in WholeObjectEndpoints -> raw
      [] OTHER -> [raw EXCEPT !.extra = FALSE]

\* Number(x) of a validated numeric value
ToNumber(x) == IF x.k = "string" /\ NumberOfString(x.s).ok THEN NumberOfString(x.s).v ELSE x

\* JavaScript truthiness
Truthy(x) ==
    CASE x.k \in {"undefined", "null"} -> FALSE
      [] x.k = "boolean" -> x.b
      [] x.k = "number"  -> x.n # 0 \/ x.frac
      [] x.k = "string"  -> x.s # <<>>
      [] x.k = "text"    -> x.t # ""
      [] OTHER -> TRUE

\* The JSON-RPC method of each handler that forwards a call
Method(ep) ==
    CASE ep = "blockchain.getChainInfo" -> "getblockchaininfo"
      [] ep = "blockchain.getGetBestblockhash" -> "getbestblockhash"
      [] ep = "blockchain.getBlock" -> "getblock"
      [] ep = "blockchain.getBlockCount" -> "getblockcount"
      [] ep = "blockchain.getBlockHash" -> "getblockhash"
      [] ep = "blockchain.getBlockHashDecimals" -> "getblockhash"
      [] ep = "blockchain.getBlockHeader" -> "getblockheader"
      [] ep = "blockchain.getBlockStats" -> "getblockstats"
      [] ep = "blockchain.getChainTips" -> "getchaintips"
      [] ep = "blockchain.getChainTxStats" -> "getchaintxstats"
      [] ep = "blockchain.getDifficulty" -> "getdifficulty"
      [] ep = "blockchain.getMempoolAncestors" -> "getmempoolancestors"
      [] ep = "blockchain.getMempoolDescendants" -> "getmempooldescendants"
      [] ep = "blockchain.getMempoolEntry" -> "getmempoolentry"
      [] ep = "blockchain.getMempoolInfo" -> "getmempoolinfo"
      [] ep = "blockchain.getRawMempool" -> "getrawmempool"
      [] ep = "blockchain.getTxOut" -> "gettxout"
      [] ep = "blockchain.getTxOutProof" -> "gettxoutproof"
      [] ep = "blockchain.scanUTXOSet" -> "scantxoutset"
      [] ep = "blockchain.verifyTxOutProof" -> "verifytxoutproof"
      [] ep = "network.getConnectionCount" -> "getconnectioncount"
      [] ep = "network.getNetTotals" -> "getnettotals"
      [] ep = "network.getNetworkInfo" -> "getnetworkinfo"
      [] ep = "network.getPeerInfo" -> "getpeerinfo"
      [] ep = "network.getNodeAddresses" -> "getnodeaddresses"
      [] ep = "mining.getMiningInfo" -> "getmininginfo"
      [] ep = "mining.getNetworkHashRate" -> "getnetworkhashps"
      [] ep = "control.getRpcInfo" -> "getrpcinfo"
      [] ep = "wallet.getBalanceByAddress" -> "scantxoutset"
      [] ep = "util.createMultisig" -> "createmultisig"
      [] ep = "util.deriveAddresses" -> "deriveaddresses"
      [] ep = "util.estimateSmartFee" -> "estimatesmartfee"
      [] ep = "util.getDescriptorInfo" -> "getdescriptorinfo"
      [] ep = "util.getIndexInfo" -> "getindexinfo"
      [] ep = "util.validateAddress" -> "validateaddress"
      [] ep = "util.verifyMessage" -> "verifymessage"
      [] OTHER -> "none"

\* util.getBlockHashDecimals answers from the codec alone; every other
\* handler forwards one JSON-RPC call.
ForwardsRpc(ep) == Method(ep) # "none"

\* The params array of the payload, from the validated value.
RpcParams(ep, value) ==
    CASE ep = "blockchain.getBlock" ->
            <<value.blockhash, OrDefault(value.verbosity, Num(1))>>
      [] ep = "blockchain.getBlockHash" -> <<ToNumber(value.count)>>
      [] ep \in {"blockchain.getBlockHashDecimals", "blockchain.getBlockStats"} ->
            <<ToNumber(value.height)>>
      [] ep = "blockchain.getBlockHeader" -> <<value.blockhash, value.verbose>>
      [] ep = "blockchain.getChainTxStats" ->
            (IF value.nblocks.k # "undefined" THEN <<value.nblocks>> ELSE <<>>)
            \o (IF value.blockhash.k # "undefined" THEN <<value.blockhash>> ELSE <<>>)
      [] ep \in {"blockchain.getMempoolAncestors", "blockchain.getMempoolDescendants"} ->
            <<value.txid, value.verbose>>
      [] ep = "blockchain.getMempoolEntry" -> <<value.txid>>
      [] ep = "blockchain.getRawMempool" -> <<value.verbose>>
      [] ep = "blockchain.getTxOut" -> <<value.txid, value.index, value.include_mempool>>
      [] ep = "blockchain.getTxOutProof" ->
            <<Arr(<<value.txid>>)>>
            \o (IF Truthy(value.blockhash) THEN <<value.blockhash>> ELSE <<>>)
      [] ep = "blockchain.scanUTXOSet" -> <<Str(Chars("start")), value.scanobjects>>
      [] ep = "blockchain.verifyTxOutProof" -> <<value.proof>>
      [] ep = "network.getNodeAddresses" -> <<value.count>>
      [] ep = "wallet.getBalanceByAddress" ->
            <<Str(Chars("start")),
              Arr(<<Obj([desc |-> IF value.address.k = "string"
                                  THEN Str(Chars("addr(") \o value.address.s \o Chars(")"))
                                  ELSE value.address])>>)>>
      [] ep = "util.createMultisig" -> <<value.nRequired, value.keys>>
      [] ep = "util.deriveAddresses" ->
            IF Truthy(value.range) THEN <<value.descriptor, value.range>>
            ELSE <<value.descriptor>>
      [] ep = "util.estimateSmartFee" -> <<value.confTarget, value.estimateMode>>
      [] ep = "util.getDescriptorInfo" -> <<value.descriptor>>
      [] ep = "util.validateAddress" -> <<value.address>>
      [] ep = "util.verifyMessage" -> <<value.address, value.signature, value.message>>
      [] OTHER -> <<>>

\* The body posted to '/'.
Payload(ep, value) ==
    [jsonrpc |-> "1.0", id |-> "curltest", method |-> Method(ep),
     params |-> RpcParams(ep, value)]

(***************************************************************************)
(* Errors                                                                  *)
(***************************************************************************)

\* A message or a code: text whose characters nothing looks at.
Text(t) == [k |-> "text", t |-> t]

\* errors/httpErrorCodes.js: the short code of an HTTP status
HTTP_ERR_CODES(status) ==
    CASE status = 400 -> Text("BAD_REQUEST")
      [] status = 500 -> Text("INTERNAL_SERVER_ERROR")
      [] status = 502 -> Text("BAD_GATEWAY")
      [] status = 503 -> Text("SERVICE_UNAVAILABLE")
      [] status = 504 -> Text("GATEWAY_TIMEOUT")

\* new ApiError(status, code, message, details = null)
ApiError(status, code, message, details) ==
    [k |-> "error", name |-> "ApiError", status |-> Num(status), code |-> code,
     message |-> message, details |-> details]

\* An error the runtime throws: it carries no status, code or details.
RuntimeError(name, message) ==
    [k |-> "error", name |-> name, status |-> Undefined, code |-> Undefined,
     message |-> Text(message), details |-> Undefined]

\* a || b
OrElse(a, b) == IF Truthy(a) THEN a ELSE b

\* x.name of a JSON value that is neither null nor undefined
Prop(x, name) ==
    IF x.k = "object" /\ name \in DOMAIN x.f THEN x.f[name] ELSE Undefined

RemoteCode(status) == Text("REMOTE_" \o ToString(status))

\* A mutant of parseAxiosError: no response is reported as a bad gateway.
parseAxiosErrorNoRequestCase(error) ==
    IF error.hasResponse
    THEN ApiError(IF error.response.status # 0 THEN error.response.status ELSE 502,
                  RemoteCode(error.response.status),
                  OrElse(IF error.response.data.k \in {"null", "undefined"} THEN Undefined
                         ELSE Prop(error.response.data, "error"), error.message),
                  OrElse(error.response.data, Null))
    ELSE ApiError(502, HTTP_ERR_CODES(502), error.message, Null)

\* A mutant of parseAxiosError: every upstream error status becomes 502.
parseAxiosErrorFixedStatus(error) ==
    IF error.hasResponse
    THEN ApiError(502, HTTP_ERR_CODES(502), error.message, OrElse(error.response.data, Null))
    ELSE IF error.code = "ECONNABORTED"
    THEN ApiError(504, HTTP_ERR_CODES(504), Text("Request timed out"), error.message)
    ELSE IF error.request
    THEN ApiError(503, HTTP_ERR_CODES(503), Text("No response from remote server"), Null)
    ELSE ApiError(502, HTTP_ERR_CODES(502), error.message, Null)

\* A mutant of parseAxiosError: without the ECONNABORTED case.
parseAxiosErrorNoTimeoutCase(error) ==
    IF error.hasResponse
    THEN ApiError(IF error.response.status # 0 THEN error.response.status ELSE 502,
                  RemoteCode(error.response.status),
                  OrElse(IF error.response.data.k \in {"null", "undefined"} THEN Undefined
                         ELSE Prop(error.response.data, "error"), error.message),
                  OrElse(error.response.data, Null))
    ELSE IF error.request
    THEN ApiError(503, HTTP_ERR_CODES(503), Text("No response from remote server"), Null)
    ELSE ApiError(502, HTTP_ERR_CODES(502), error.message, Null)

\* A mutant of parseAxiosError: a timeout is reported as 408.
parseAxiosErrorTimeout408(error) ==
    IF error.hasResponse
    THEN ApiError(IF error.response.status # 0 THEN error.response.status ELSE 502,
                  RemoteCode(error.response.status),
                  OrElse(IF error.response.data.k \in {"null", "undefined"} THEN Undefined
                         ELSE Prop(error.response.data, "error"), error.message),
                  OrElse(error.response.data, Null))
    ELSE IF error.code = "ECONNABORTED"
    THEN ApiError(408, HTTP_ERR_CODES(504), Text("Request timed out"), error.message)
    ELSE IF error.request
    THEN ApiError(503, HTTP_ERR_CODES(503), Text("No response from remote server"), Null)
    ELSE ApiError(502, HTTP_ERR_CODES(502), error.message, Null)

\* parseAxiosError(error, fallbackStatus = 502)
parseAxiosError(error) ==
    IF error.hasResponse
    THEN ApiError(IF error.response.status # 0 THEN error.response.status ELSE 502,
                  RemoteCode(error.response.status),
                  OrElse(IF error.response.data.k \in {"null", "undefined"} THEN Undefined
                         ELSE Prop(error.response.data, "error"), error.message),
                  OrElse(error.response.data, Null))
    ELSE IF error.code = "ECONNABORTED"
    THEN ApiError(504, HTTP_ERR_CODES(504), Text("Request timed out"), error.message)
    ELSE IF error.request
    THEN ApiError(503, HTTP_ERR_CODES(503), Text("No response from remote server"), Null)
    ELSE ApiError(502, HTTP_ERR_CODES(502), error.message, Null)

\* A mutant of errorResponseHandler: the stack is added in development only
\* and req never, so that the record logged is the body sent.
errorResponseHandlerSameRecord(e, nodeEnv) ==
    LET status == IF Truthy(e.status) THEN e.status.n ELSE 500
        error  == [status  |-> status,
                   code    |-> OrElse(e.code, HTTP_ERR_CODES(500)),
                   message |-> OrElse(e.message, Text("Internal Server Error")),
                   details |-> OrElse(e.details, Null)]
        development == nodeEnv = "development"
    IN  [logged |-> [success |-> FALSE, error |-> error, stack |-> development, req |-> FALSE],
         status |-> status,
         sent   |-> [success |-> FALSE, error |-> error, stack |-> development, req |-> FALSE]]

\* errorResponseHandler(err, req, res, next): the record handed to
\* logger.error, and the status and body sent.  error.stack is set, req is
\* added in production, the record is logged, and in production both are
\* deleted again before the body is sent.  stack and req say whether the
\* record holds error.stack and req.
errorResponseHandler(e, nodeEnv) ==
    LET status == IF Truthy(e.status) THEN e.status.n ELSE 500
        error  == [status  |-> status,
                   code    |-> OrElse(e.code, HTTP_ERR_CODES(500)),
                   message |-> OrElse(e.message, Text("Internal Server Error")),
                   details |-> OrElse(e.details, Null)]
        production == nodeEnv = "production"
    IN  [logged |-> [success |-> FALSE, error |-> error, stack |-> TRUE, req |-> production],
         status |-> status,
         sent   |-> [success |-> FALSE, error |-> error, stack |-> ~production, req |-> FALSE]]

(***************************************************************************)
(* The axios client of getClient(), and the answer of the node             *)
(***************************************************************************)

\* axios.create({baseURL, headers}) sets no timeout: axios's default, 0,
\* means the request is never timed out by the client.
AxiosTimeout == 0

\* !envConfig.SELF_HOSTED_BTC_HOST || ... : getClient throws
MissingNodeConfig(config) ==
    \/ ~Truthy(config.SELF_HOSTED_BTC_HOST)
    \/ ~Truthy(config.SELF_HOSTED_BTC_USERNAME)
    \/ ~Truthy(config.SELF_HOSTED_BTC_PASSWORD)

\* What the node can give as the result of a call.
HashD7 == Rep("0", 58) \o <<"d", "7", "c", "8", "f", "4">>

Results == {Num(7), Str(HashD7), Null, Obj([total_amount |-> Num(3)])}

\* A JSON-RPC 1.0 answer
Envelope(result, error) ==
    Obj([result |-> result, error |-> error, id |-> Text("curltest")])

RpcError == Obj([code |-> Num(-5), message |-> Text("rpc error")])

\* A body that is not JSON (axios leaves it a string), JSON that is no
\* envelope, and the JSON literal null.
MalformedBodies == {Str(Chars("abc")), Obj(<<>>), Null}

\* What can become of a post: an answer with a 2xx status, an answer with
\* another status, or a failure of the transport with no answer (the request
\* was sent unless the failure came before it left).
UpstreamOutcomes ==
    {[kind |-> "response", status |-> 200, data |-> d, code |-> "", request |-> TRUE] :
        d \in {Envelope(r, Null) : r \in Results} \cup MalformedBodies}
    \cup
    {[kind |-> "response", status |-> s, data |-> d, code |-> "", request |-> TRUE] :
        s \in {401, 404, 500}, d \in {Envelope(Null, RpcError), Str(Chars("abc"))}}
    \cup
    {[kind |-> "error", status |-> 0, data |-> Undefined, code |-> c, request |-> TRUE] :
        c \in {"ECONNREFUSED", "EHOSTUNREACH", "ECONNABORTED"}}
    \cup
    {[kind |-> "error", status |-> 0, data |-> Undefined, code |-> "ERR_INVALID_URL",
      request |-> FALSE]}

\* validateStatus: status >= 200 && status < 300
ValidateStatus(status) == status >= 200 /\ status < 300

\* The promise of client.post('/', payload) once the outcome is known:
\* fulfilled with the response, or rejected with what the response
\* interceptor throws, parseAxiosError(error).
AxiosSettle(outcome) ==
    IF outcome.kind = "response" /\ ValidateStatus(outcome.status)
    THEN [rejected |-> FALSE, data |-> outcome.data, err |-> Undefined]
    ELSE [rejected |-> TRUE, data |-> Undefined,
          err |-> parseAxiosError(
                     [hasResponse |-> outcome.kind = "response",
                      response    |-> [status |-> outcome.status, data |-> outcome.data],
                      code        |-> outcome.code,
                      request     |-> outcome.request,
                      message     |-> Text("axios error")])]

(***************************************************************************)
(* What a handler does with the fulfilled response, info                   *)
(***************************************************************************)

Returns(data) == [threw |-> FALSE, data |-> data, err |-> Undefined]
Throws(e)     == [threw |-> TRUE, data |-> Undefined, err |-> e]

\* getHexSuffixDecimals on any value: slice exists on strings only
HexSuffixOf(x) ==
    IF x.k # "string" THEN Throws(RuntimeError("TypeError", "hexHash.slice is not a function"))
    ELSE LET r == getHexSuffixDecimals(x.s)
         IN  IF r.threw THEN Throws(RuntimeError("SyntaxError", "Cannot convert to a BigInt"))
             ELSE Returns(Obj(r.table))

\* The data of the success envelope, from info.data; reading .result of null
\* throws a TypeError.
SuccessData(ep, data) ==
    IF ep \in {"blockchain.getChainInfo", "blockchain.getGetBestblockhash"}
    THEN Returns(data)
    ELSE IF data.k \in {"null", "undefined"}
    THEN Throws(RuntimeError("TypeError", "Cannot read properties of null"))
    ELSE LET result == Prop(data, "result")
         IN  CASE ep = "blockchain.getBlockHashDecimals" ->
                     LET d == HexSuffixOf(result)
                     IN  IF d.threw THEN d
                         ELSE Returns(Obj([hash |-> result, decimals |-> d.data]))
               [] ep = "wallet.getBalanceByAddress" ->
                     \* result?.total_amount ?? 0
                     Returns(IF result.k \in {"null", "undefined"} THEN Num(0)
                             ELSE IF Prop(result, "total_amount").k \in {"null", "undefined"}
                             THEN Num(0)
                             ELSE Prop(result, "total_amount"))
               [] OTHER -> Returns(result)

(***************************************************************************)
(* Raw requests: what a client can send to each endpoint.  Path parameters *)
(* are always non-empty strings; query parameters are strings or absent;   *)
(* body fields are any JSON.  extra says whether the query or body carries *)
(* a key the schema does not declare.                                      *)
(***************************************************************************)

H63 == Str(Rep("a", 63))
H64 == Str(Rep("a", 64))
H65 == Str(Rep("a", 65))

PathHashes  == {H63, H64, H65}
QueryHashes == PathHashes \cup {Undefined}
PathInts    == {Str(<<"0">>), Str(<<"7">>), Str(<<"-", "1">>), Str(<<"1", ".", "5">>),
                Str(Chars("abc"))}
QueryBools  == {Undefined, Str(Chars("true")), Str(Chars("false")), Str(<<"1">>),
                Str(Chars("no"))}
Texts       == {Undefined, Str(Chars("abc")), Str(<<>>)}

K66  == Str(Rep("a", 66))
K130 == Str(Rep("B", 130))
K65  == Str(Rep("a", 65))
KBad == Str(Rep("g", 66))

RawInputs(ep) ==
    CASE ep = "blockchain.getBlock" ->
            [blockhash : PathHashes,
             verbosity : {Undefined, Str(<<"0">>), Str(<<"1">>), Str(<<"2">>), Str(<<"3">>),
                          Str(Chars("abc"))},
             extra : BOOLEAN]
      [] ep = "blockchain.getBlockHash" -> [count : PathInts, extra : {FALSE}]
      [] ep \in {"blockchain.getBlockHashDecimals", "blockchain.getBlockStats"} ->
            [height : PathInts, extra : {FALSE}]
      [] ep = "blockchain.getBlockHeader" ->
            [blockhash : PathHashes, verbose : QueryBools, extra : {FALSE}]
      [] ep = "blockchain.getChainTxStats" ->
            [nblocks : {Undefined, Str(<<"1">>), Str(<<"0">>), Str(Chars("abc"))},
             blockhash : QueryHashes, extra : {FALSE}]
      [] ep \in {"blockchain.getMempoolAncestors", "blockchain.getMempoolDescendants"} ->
            [txid : PathHashes, verbose : QueryBools, extra : {FALSE}]
      [] ep = "blockchain.getMempoolEntry" -> [txid : PathHashes, extra : {FALSE}]
      [] ep = "blockchain.getRawMempool" -> [verbose : QueryBools, extra : {FALSE}]
      [] ep = "blockchain.getTxOut" ->
            [txid : PathHashes, index : PathInts, include_mempool : QueryBools,
             extra : {FALSE}]
      [] ep = "blockchain.getTxOutProof" ->
            [txid : PathHashes, blockhash : QueryHashes, extra : {FALSE}]
      [] ep = "blockchain.scanUTXOSet" ->
            [scanobjects : {Undefined, Arr(<<>>), Str(Chars("abc")),
                            Arr(<<Obj([desc |-> Str(Chars("abc")), range |-> Undefined])>>),
                            Arr(<<Obj([desc |-> Undefined, range |-> Num(5)])>>)},
             extra : BOOLEAN]
      [] ep = "blockchain.verifyTxOutProof" ->
            [proof : Texts \cup {Num(5)}, extra : BOOLEAN]
      [] ep = "network.getNodeAddresses" ->
            [count : {Undefined, Str(<<"1">>), Str(<<"1", "0", "0", "0">>),
                      Str(<<"1", "0", "0", "1">>), Str(<<"0">>), Str(<<"1", ".", "5">>),
                      Str(Chars("abc"))},
             extra : {FALSE}]
      [] ep = "wallet.getBalanceByAddress" -> [address : Texts, extra : BOOLEAN]
      [] ep = "util.createMultisig" ->
            [nRequired : {Undefined, Num(0), Num(1), Num(2), Num(20), Num(21), Num(25),
                          Frac(2), Str(<<"2">>), Str(Chars("abc"))},
             keys : {Undefined, Str(Chars("abc")), Arr(<<K66, K130>>), Arr(<<K66>>),
                     Arr(<<KBad, K66>>), Arr(<<KBad, K65>>), Arr(Rep(K66, 21))},
             extra : BOOLEAN]
      [] ep = "util.deriveAddresses" ->
            [descriptor : {Undefined, Str(Chars("abc"))},
             range : {Undefined, Arr(<<Num(0), Num(2)>>), Arr(<<Num(0)>>),
                      Arr(<<Num(-1), Num(2)>>)},
             extra : BOOLEAN]
      [] ep = "util.estimateSmartFee" ->
            [confTarget : {Undefined, Str(<<"1">>), Str(<<"0">>), Str(Chars("abc"))},
             estimateMode : {Undefined, Str(Chars("UNSET")), Str(Chars("ECONOMICAL")),
                             Str(Chars("CONSERVATIVE")), Str(Chars("abc"))},
             extra : BOOLEAN]
      [] ep = "util.getDescriptorInfo" -> [descriptor : Texts, extra : BOOLEAN]
      [] ep = "util.validateAddress" -> [address : Texts, extra : BOOLEAN]
      [] ep = "util.verifyMessage" ->
            [address : {Undefined, Str(Chars("abc"))},
             signature : {Undefined, Str(Chars("abc"))},
             message : {Undefined, Str(Chars("abc"))}, extra : BOOLEAN]
      [] ep = "util.getBlockHashDecimals" ->
            [hash : Texts \cup {Str(<<"d", "7", "c", "8", "f", "4">>), Str(HashD7), H63,
                                Str(<<"x", "y", "z">>)},
             extra : BOOLEAN]
      [] OTHER -> [extra : {FALSE}]

(***************************************************************************)
(* The gateway: the life of an inbound request                             *)
(***************************************************************************)

\* The inbound requests in flight
Reqs == {1}

\* The requests the server can hold at once: node serves every connection
\* from one event loop.
Conns == {1, 2}

NoReq == [ep |-> "none", raw |-> [extra |-> FALSE]]

NodeEnvs == {"development", "production"}

\* envConf.js lets the process continue only with every required variable
\* a non-empty string.
ValidConfigs ==
    [NODE_ENV : NodeEnvs,
     SELF_HOSTED_BTC_HOST : {Str(Chars("abc"))},
     SELF_HOSTED_BTC_USERNAME : {Str(Chars("abc"))},
     SELF_HOSTED_BTC_PASSWORD : {Str(Chars("abc"))}]

GatewayInit ==
    /\ envConfig \in ValidConfigs
    /\ pc = [r \in Conns |-> "idle"]
    /\ req = [r \in Conns |-> NoReq]
    /\ posts = [r \in Conns |-> <<>>]
    /\ upstream = [r \in Conns |-> Undefined]
    /\ err = [r \in Conns |-> Undefined]
    /\ res = [r \in Conns |-> <<>>]
    /\ log = [r \in Conns |-> <<>>]

\* express routes an inbound request to its handler.
Receive(r) ==
    /\ pc[r] = "idle"
    /\ \E ep \in Endpoints : \E raw \in RawInputs(ep) :
          req' = [req EXCEPT ![r] = [ep |-> ep, raw |-> raw]]
    /\ pc' = [pc EXCEPT ![r] = "handler"]
    /\ UNCHANGED <<envConfig, posts, upstream, err, res, log, codecVars>>

\* The requests of the two-request specification: a valid and an invalid
\* getBlock, and a getBlockCount.
ConcurrentRequests ==
    {[ep |-> "blockchain.getBlockCount", raw |-> [extra |-> FALSE]]}
    \cup
    {[ep |-> "blockchain.getBlock",
      raw |-> [blockhash |-> h, verbosity |-> Undefined, extra |-> FALSE]] : h \in {H64, H63}}

ReceiveOne(r) ==
    /\ pc[r] = "idle"
    /\ \E q \in ConcurrentRequests : req' = [req EXCEPT ![r] = q]
    /\ pc' = [pc EXCEPT ![r] = "handler"]
    /\ UNCHANGED <<envConfig, posts, upstream, err, res, log, codecVars>>

\* A mutant of Runnable: a handler starts only while no other request waits
\* for the node.
RunnableWhenNoCallPending(r) ==
    pc[r] = "handler" /\ \A q \in Conns \ {r} : pc[q] # "awaiting"

\* express calls the handler of a routed request; an await of another request
\* leaves the event loop free to do so.
Runnable(r) == pc[r] = "handler"

\* A mutant of Send: the response is written twice.
SendTwice(r, status, body) ==
    res' = [res EXCEPT ![r] = @ \o <<[status |-> status, body |-> body],
                                     [status |-> status, body |-> body]>>]

\* res.status(status).json(body): the status and the body the handler hands
\* to express, with the keys the handler wrote.
Send(r, status, body) == res' = [res EXCEPT ![r] = Append(@, [status |-> status, body |-> body])]

\* A mutant of PostAllowed: the post does not wait for the validation.
PostAllowedAlways(details) == TRUE

\* if (error) { throw new ApiError(400, ...) }: the code after it runs only
\* when the validation found nothing.
PostAllowed(details) == details = <<>>

ValidationMessage(ep) ==
    CASE ep \in {"blockchain.getBlockHashDecimals", "wallet.getBalanceByAddress"} ->
            Text("Validation failed")
      [] ep = "blockchain.scanUTXOSet" -> Text("Invalid scan request")
      [] ep = "blockchain.verifyTxOutProof" -> Text("Invalid proof format")
      [] ep \in {"util.createMultisig", "util.deriveAddresses", "util.estimateSmartFee",
                 "util.getDescriptorInfo", "util.validateAddress", "util.verifyMessage",
                 "util.getBlockHashDecimals"} -> Text("Request validation failed")
      [] OTHER -> Text("request validation failed")

\* The handler, from its first line to its first await, its throw or its
\* return: validate, then getClient() and the post.
HandlerStart(r) ==
    /\ Runnable(r)
    /\ LET ep      == req[r].ep
           obj     == PreValidate(ep, req[r].raw)
           details == IF ep \in SchemaEndpoints THEN JoiDetails(Schema(ep), obj) ELSE <<>>
           value   == JoiValue(Schema(ep), obj)
       IN  IF ~PostAllowed(details)
           THEN /\ err' = [err EXCEPT ![r] = ApiError(400, HTTP_ERR_CODES(400),
                                                      ValidationMessage(ep), Arr(details))]
                /\ pc' = [pc EXCEPT ![r] = "error"]
                /\ UNCHANGED <<posts, res>>
           ELSE IF ~ForwardsRpc(ep)
           THEN LET d == HexSuffixOf(value.hash)
                IN  IF d.threw
                    THEN /\ err' = [err EXCEPT ![r] = d.err]
                         /\ pc' = [pc EXCEPT ![r] = "error"]
                         /\ UNCHANGED <<posts, res>>
                    ELSE /\ Send(r, 200, [success |-> TRUE, data |-> d.data])
                         /\ pc' = [pc EXCEPT ![r] = "done"]
                         /\ UNCHANGED <<posts, err>>
           ELSE IF MissingNodeConfig(envConfig)
           THEN /\ err' = [err EXCEPT ![r] =
                              RuntimeError("Error", "Missing Bitcoin node configuration environment variables.")]
                /\ pc' = [pc EXCEPT ![r] = "error"]
                /\ UNCHANGED <<posts, res>>
           ELSE /\ posts' = [posts EXCEPT ![r] = Append(@, Payload(ep, value))]
                /\ pc' = [pc EXCEPT ![r] = "awaiting"]
                /\ UNCHANGED <<err, res>>
    /\ UNCHANGED <<envConfig, req, upstream, log, codecVars>>

\* The node answers, or the transport fails: the awaited promise settles.
UpstreamAnswer(r) ==
    /\ pc[r] = "awaiting"
    /\ \E o \in UpstreamOutcomes : upstream' = [upstream EXCEPT ![r] = o]
    /\ pc' = [pc EXCEPT ![r] = "settled"]
    /\ UNCHANGED <<envConfig, req, posts, err, res, log, codecVars>>

\* A mutant of HandlerResume: a rejected call is issued a second time.
HandlerResumeRetry(r) ==
    /\ pc[r] = "settled"
    /\ LET info == AxiosSettle(upstream[r])
           d    == SuccessData(req[r].ep, info.data)
       IN  IF info.rejected /\ Len(posts[r]) < 2
           THEN /\ posts' = [posts EXCEPT ![r] = Append(@, @[1])]
                /\ pc' = [pc EXCEPT ![r] = "awaiting"]
                /\ UNCHANGED <<err, res>>
           ELSE IF info.rejected
           THEN /\ err' = [err EXCEPT ![r] = info.err]
                /\ pc' = [pc EXCEPT ![r] = "error"]
                /\ UNCHANGED <<posts, res>>
           ELSE IF d.threw
           THEN /\ err' = [err EXCEPT ![r] = d.err]
                /\ pc' = [pc EXCEPT ![r] = "error"]
                /\ UNCHANGED <<posts, res>>
           ELSE /\ Send(r, 200, [success |-> TRUE, data |-> d.data])
                /\ pc' = [pc EXCEPT ![r] = "done"]
                /\ UNCHANGED <<posts, err>>
    /\ UNCHANGED <<envConfig, req, upstream, log, codecVars>>

\* A mutant of HandlerResume: the settled response is kept in one place
\* shared by all requests, and the handler reads whichever is there.
HandlerResumeSharedResponse(r) ==
    /\ pc[r] = "settled"
    /\ LET last == CHOOSE q \in Conns : upstream[q] # Undefined
           info == AxiosSettle(upstream[last])
           d    == SuccessData(req[r].ep, info.data)
       IN  IF info.rejected
           THEN /\ err' = [err EXCEPT ![r] = info.err]
                /\ pc' = [pc EXCEPT ![r] = "error"]
                /\ UNCHANGED res
           ELSE IF d.threw
           THEN /\ err' = [err EXCEPT ![r] = d.err]
                /\ pc' = [pc EXCEPT ![r] = "error"]
                /\ UNCHANGED res
           ELSE /\ Send(r, 200, [success |-> TRUE, data |-> d.data])
                /\ pc' = [pc EXCEPT ![r] = "done"]
                /\ UNCHANGED err
    /\ UNCHANGED <<envConfig, req, posts, upstream, log, codecVars>>

\* The handler after its await: the rejection is thrown on, the response is
\* wrapped and sent.
HandlerResume(r) ==
    /\ pc[r] = "settled"
    /\ LET info == AxiosSettle(upstream[r])
           d    == SuccessData(req[r].ep, info.data)
       IN  IF info.rejected
           THEN /\ err' = [err EXCEPT ![r] = info.err]
                /\ pc' = [pc EXCEPT ![r] = "error"]
                /\ UNCHANGED res
           ELSE IF d.threw
           THEN /\ err' = [err EXCEPT ![r] = d.err]
                /\ pc' = [pc EXCEPT ![r] = "error"]
                /\ UNCHANGED res
           ELSE /\ Send(r, 200, [success |-> TRUE, data |-> d.data])
                /\ pc' = [pc EXCEPT ![r] = "done"]
                /\ UNCHANGED err
    /\ UNCHANGED <<envConfig, req, posts, upstream, log, codecVars>>

\* A mutant of ErrorHandler: the failure is answered without a log record.
ErrorHandlerNoLog(r) ==
    /\ pc[r] = "error"
    /\ LET h == errorResponseHandler(err[r], envConfig.NODE_ENV)
       IN  Send(r, h.status, h.sent)
    /\ pc' = [pc EXCEPT ![r] = "done"]
    /\ UNCHANGED <<envConfig, req, posts, upstream, err, log, codecVars>>

\* expressAsyncHandler passes the rejection to next(err), which reaches
\* errorResponseHandler, the last middleware.
ErrorHandler(r) ==
    /\ pc[r] = "error"
    /\ LET h == errorResponseHandler(err[r], envConfig.NODE_ENV)
       IN  /\ log' = [log EXCEPT ![r] = Append(@, h.logged)]
           /\ Send(r, h.status, h.sent)
    /\ pc' = [pc EXCEPT ![r] = "done"]
    /\ UNCHANGED <<envConfig, req, posts, upstream, err, codecVars>>

\* The request is over; the next one on this connection starts afresh.
Recycle(r) ==
    /\ pc[r] = "done"
    /\ pc' = [pc EXCEPT ![r] = "idle"]
    /\ req' = [req EXCEPT ![r] = NoReq]
    /\ posts' = [posts EXCEPT ![r] = <<>>]
    /\ upstream' = [upstream EXCEPT ![r] = Undefined]
    /\ err' = [err EXCEPT ![r] = Undefined]
    /\ res' = [res EXCEPT ![r] = <<>>]
    /\ log' = [log EXCEPT ![r] = <<>>]
    /\ UNCHANGED <<envConfig, codecVars>>

\* The positions at which the gateway's own code is the next to run, and the
\* step that leaves such a position (HandlerStart, HandlerResume and
\* ErrorHandler are the only steps of Next that do).
GatewayStep(r) ==
    /\ (Runnable(r) \/ pc[r] \in {"settled", "error"})
    /\ \E p \in {"awaiting", "error", "done"} : pc' = [pc EXCEPT ![r] = p]

(***************************************************************************)
(* The codec's specification: an input is drawn, then the function is      *)
(* called on it.                                                           *)
(***************************************************************************)

MaxHexLen == 17

CodecChars == {"0", "1", "f", "g"}

\* Inputs: a run of one character followed by a run of another.
CodecInputs ==
    {Rep(a, m) \o Rep(b, n) :
        <<a, b, m, n>> \in {q \in CodecChars \X CodecChars \X (0..MaxHexLen) \X (0..MaxHexLen) :
                               q[3] + q[4] <= MaxHexLen}}

NotCalled == [threw |-> FALSE, table |-> <<>>, called |-> FALSE]

\* The codec at rest, while the gateway is explored.
CodecIdle ==
    /\ hexHash = <<>>
    /\ decimals = NotCalled

CodecInit ==
    /\ hexHash \in CodecInputs
    /\ decimals = NotCalled
    /\ GatewayInit
    /\ envConfig.NODE_ENV = "production"

CodecCall ==
    /\ ~decimals.called
    /\ decimals' = LET r == getHexSuffixDecimals(hexHash)
                    IN  [threw |-> r.threw, table |-> r.table, called |-> TRUE]
    /\ UNCHANGED hexHash
    /\ UNCHANGED gatewayVars

CodecNext == CodecCall

SpecCodec == CodecInit /\ [][CodecNext]_vars

\* A mutant of CodecCallAgain: the first call left its argument without the
\* last character, and the second call decodes what is left.
CodecCallAgainOnShortened ==
    /\ decimals.called /\ "again" \notin DOMAIN decimals
    /\ hexHash' = SubSeq(hexHash, 1, Len(hexHash) - 1)
    /\ decimals' = LET r == getHexSuffixDecimals(hexHash')
                    IN  [threw |-> r.threw, table |-> r.table, called |-> TRUE,
                         again |-> TRUE]
    /\ UNCHANGED gatewayVars

\* The function is called a second time on the same string.
CodecCallAgain ==
    /\ decimals.called /\ "again" \notin DOMAIN decimals
    /\ decimals' = LET r == getHexSuffixDecimals(hexHash)
                    IN  [threw |-> r.threw, table |-> r.table, called |-> TRUE,
                         again |-> TRUE]
    /\ UNCHANGED hexHash
    /\ UNCHANGED gatewayVars

CodecNextTwice == CodecCall \/ CodecCallAgain

SpecCodecTwice == CodecInit /\ [][CodecNextTwice]_vars

(***************************************************************************)
(* The gateway's specifications                                            *)
(***************************************************************************)

Init == GatewayInit /\ CodecIdle

Next ==
    \E r \in Reqs :
        \/ Receive(r)
        \/ HandlerStart(r)
        \/ UpstreamAnswer(r)
        \/ HandlerResume(r)
        \/ ErrorHandler(r)
        \/ Recycle(r)

Spec == Init /\ [][Next]_vars

\* The event loop runs every step of a handler that is ready to run.  The
\* node's answer is the node's to give: the client forces the await to end
\* only if it sets a timeout.
FairSpec ==
    /\ Init
    /\ [][Next]_vars
    /\ \A r \in Reqs : WF_pc(GatewayStep(r))
    /\ \A r \in Reqs : WF_vars(AxiosTimeout > 0 /\ UpstreamAnswer(r))

\* Two requests in flight.  Every step of the gateway that is ready to run
\* is run; the node answers the call of request 2, and may leave the call of
\* request 1 unanswered.
NextConcurrent ==
    \E r \in Conns :
        \/ ReceiveOne(r)
        \/ HandlerStart(r)
        \/ UpstreamAnswer(r)
        \/ HandlerResume(r)
        \/ ErrorHandler(r)
        \/ Recycle(r)

SpecConcurrent ==
    /\ Init
    /\ [][NextConcurrent]_vars
    /\ \A r \in Conns : WF_pc(GatewayStep(r))
    /\ WF_vars(UpstreamAnswer(2))

(***************************************************************************)
(* Startup: config/envConf.js validates process.env when it is imported,   *)
(* then the application file builds the express app and listens.  Before   *)
(* startup envConfig holds process.env as dotenv and the shell left it;    *)
(* after a successful startup it holds the exported envConfig.             *)
(***************************************************************************)

RECURSIVE Split(_, _)
\* String.prototype.split on a one-character separator
Split(s, sep) ==
    IF IndexOf(s, sep) = 0 THEN <<s>>
    ELSE <<SubSeq(s, 1, IndexOf(s, sep) - 1)>>
         \o Split(SubSeq(s, IndexOf(s, sep) + 1, Len(s)), sep)

RECURSIVE Trim(_)
\* String.prototype.trim, for strings whose only white space is the blank
Trim(s) ==
    IF s = <<>> THEN s
    ELSE IF Head(s) = " " THEN Trim(Tail(s))
    ELSE IF s[Len(s)] = " " THEN Trim(SubSeq(s, 1, Len(s) - 1))
    ELSE s

\* (process.env.SWAGGER_SERVERS || '').split(',').map((h) => h.trim())
servers(raw) ==
    LET parts == Split(IF Truthy(raw) THEN raw.s ELSE <<>>, ",")
    IN  Arr([i \in 1..Len(parts) |-> Str(Trim(parts[i]))])

\* Joi.array().items(Joi.string().custom(isHostSyntaxValid)).min(1).required()
validateHosts ==
    Key("SWAGGER_SERVERS", "array", TRUE,
        <<[r |-> "items", of |-> "host"], [r |-> "min", n |-> 1]>>)

envSchema ==
    <<Key("NODE_ENV", "string", FALSE, <<>>),
      Key("PORT", "number", TRUE, <<>>),
      Key("CORS_CONFIG", "string", TRUE, <<>>),
      Key("SELF_HOSTED_BTC_HOST", "string", TRUE, <<>>),
      Key("SELF_HOSTED_BTC_USERNAME", "string", TRUE, <<>>),
      Key("SELF_HOSTED_BTC_PASSWORD", "string", TRUE, <<>>),
      validateHosts>>

\* { ...process.env, SWAGGER_SERVERS: servers }; the schema is .unknown(), so
\* no other variable of the environment is a violation.
EnvObject(env) ==
    [NODE_ENV |-> Str(Chars(env.NODE_ENV)),
     PORT |-> env.PORT,
     CORS_CONFIG |-> env.CORS_CONFIG,
     SELF_HOSTED_BTC_HOST |-> env.SELF_HOSTED_BTC_HOST,
     SELF_HOSTED_BTC_USERNAME |-> env.SELF_HOSTED_BTC_USERNAME,
     SELF_HOSTED_BTC_PASSWORD |-> env.SELF_HOSTED_BTC_PASSWORD,
     SWAGGER_SERVERS |-> servers(env.SWAGGER_SERVERS),
     extra |-> FALSE]

\* The exported envConfig, from the validated values
ExportedConfig(env) ==
    LET envVars == JoiValue(envSchema, EnvObject(env))
    IN  [NODE_ENV |-> env.NODE_ENV,
         PORT |-> envVars.PORT,
         CORS_CONFIG |-> envVars.CORS_CONFIG,
         SELF_HOSTED_BTC_HOST |-> envVars.SELF_HOSTED_BTC_HOST,
         SELF_HOSTED_BTC_USERNAME |-> envVars.SELF_HOSTED_BTC_USERNAME,
         SELF_HOSTED_BTC_PASSWORD |-> envVars.SELF_HOSTED_BTC_PASSWORD,
         SWAGGER_SERVERS |-> envVars.SWAGGER_SERVERS]

IsQuoted(s) ==
    /\ Len(s) >= 2
    /\ s[1] = "\"" /\ s[Len(s)] = "\""
    /\ \A i \in 2..(Len(s) - 1) : s[i] \notin {"\"", "\\"}

IsJsonScalar(s) ==
    \/ s \in {Chars("true"), Chars("false"), <<"n", "u", "l", "l">>}
    \/ IsDigits(s)
    \/ IsQuoted(s)

\* Whether JSON.parse(s) returns, for the texts of one line without nesting:
\* a scalar, an empty array or object, or an object of one member.
JsonParses(s) ==
    \/ IsJsonScalar(s)
    \/ s \in {<<"{", "}">>, <<"[", "]">>}
    \/ /\ Len(s) >= 2 /\ s[1] = "{" /\ s[Len(s)] = "}"
       /\ \E c \in 2..(Len(s) - 1) :
             /\ s[c] = ":"
             /\ IsQuoted(SubSeq(s, 2, c - 1))
             /\ IsJsonScalar(SubSeq(s, c + 1, Len(s) - 1))

\* Whether the process reaches app.listen: the import of envConf.js throws
\* on a validation error, and cors(JSON.parse(envConfig.CORS_CONFIG)) throws
\* on a text that is no JSON; both are uncaught at module level.
Boots(env) ==
    /\ JoiDetails(envSchema, EnvObject(env)) = <<>>
    /\ JsonParses(ExportedConfig(env).CORS_CONFIG.s)

SwaggerServerLists ==
    {Undefined, Str(<<>>),
     Str(<<"h", "t", "t", "p", ":", "/", "/", "l", "o", "c", "a", "l", "h", "o", "s", "t">>),
     Str(<<"h", "t", "t", "p", ":", "/", "/", "l", "o", "c", "a", "l", "h", "o", "s", "t", ":", "3", "0", "0", "0", ",", "h", "t", "t", "p", "s", ":", "/", "/", "a", "1", ".", "i", "o">>),
     Str(<<"h", "t", "t", "p", ":", "/", "/", "l", "o", "c", "a", "l", "h", "o", "s", "t", ",", " ", "h", "t", "t", "p", "s", ":", "/", "/", "a", "1", ".", "i", "o">>),
     Str(<<"l", "o", "c", "a", "l", "h", "o", "s", "t">>),
     Str(<<"h", "t", "t", "p", ":", "/", "/", "a", "1", ".", "i", "o", ",", "a", "b", "c">>),
     Str(<<"h", "t", "t", "p", ":", "/", "/", "[", ":", ":", "1", "]", ":", "8">>),
     Str(<<"H", "T", "T", "P", ":", "/", "/", "1", ".", "2", ".", "3", ".", "4">>),
     Str(<<"h", "t", "t", "p", ":", "/", "/", "a", ".", ".", "i", "o">>),
     Str(<<"h", "t", "t", "p", ":", "/", "/", "a", "1", ".", "i", "o", ",">>)}

NodeHosts == {Undefined, Str(<<>>), Str(Chars("abc")), Str(<<"h", "t", "t", "p", ":", "/", "/", "l", "o", "c", "a", "l", "h", "o", "s", "t", ":", "8", "3", "3", "2">>)}

ProcessEnvs ==
    [NODE_ENV : NodeEnvs,
     PORT : {Undefined, Str(<<"3", "0", "0", "0">>), Str(Chars("abc"))},
     CORS_CONFIG : {Undefined, Str(<<"{", "}">>), Str(Chars("abc")),
                    Str(<<"{", "\"", "o", "r", "i", "g", "i", "n", "\"", ":", "\"", "*", "\"", "}">>)},
     SELF_HOSTED_BTC_HOST : NodeHosts,
     SELF_HOSTED_BTC_USERNAME : {Undefined, Str(Chars("abc"))},
     SELF_HOSTED_BTC_PASSWORD : {Undefined, Str(Chars("abc"))},
     SWAGGER_SERVERS : SwaggerServerLists]

StartupInit ==
    /\ envConfig \in ProcessEnvs
    /\ pc = [r \in Conns |-> "starting"]
    /\ req = [r \in Conns |-> NoReq]
    /\ posts = [r \in Conns |-> <<>>]
    /\ upstream = [r \in Conns |-> Undefined]
    /\ err = [r \in Conns |-> Undefined]
    /\ res = [r \in Conns |-> <<>>]
    /\ log = [r \in Conns |-> <<>>]
    /\ CodecIdle

\* node runs the application file: the imports, the middlewares, listen.
Startup ==
    /\ \A r \in Conns : pc[r] = "starting"
    /\ IF Boots(envConfig)
       THEN /\ envConfig' = ExportedConfig(envConfig)
            /\ pc' = [r \in Conns |-> "idle"]
       ELSE /\ pc' = [r \in Conns |-> "aborted"]
            /\ UNCHANGED envConfig
    /\ UNCHANGED <<req, posts, upstream, err, res, log, codecVars>>

NextStartup ==
    \/ Startup
    \/ \E r \in Reqs :
        \/ ReceiveOne(r)
        \/ HandlerStart(r)
        \/ UpstreamAnswer(r)
        \/ HandlerResume(r)
        \/ ErrorHandler(r)
        \/ Recycle(r)

SpecStartup == StartupInit /\ [][NextStartup]_vars

(***************************************************************************)
(* Routing: the routers of routes/*.js, the mounts of the application file *)
(* and the paths the swagger annotations of the services document.  A path *)
(* is the sequence of its segments; a segment of a pattern is a literal or *)
(* a parameter.                                                            *)
(***************************************************************************)

Lit(name)   == [seg |-> "lit", name |-> name]
Param(name) == [seg |-> "param", name |-> name]

Route(method, path, handler) == [method |-> method, path |-> path, handler |-> handler]

blockchainRouter ==
    <<Route("GET", <<Lit("info")>>, "blockchain.getChainInfo"),
      Route("GET", <<Lit("best-block-hash")>>, "blockchain.getGetBestblockhash"),
      Route("GET", <<Lit("block-count")>>, "blockchain.getBlockCount"),
      Route("GET", <<Lit("block"), Param("blockhash")>>, "blockchain.getBlock"),
      Route("GET", <<Lit("blockhash"), Param("count")>>, "blockchain.getBlockHash"),
      Route("GET", <<Lit("block-hash-decimals"), Param("height")>>, "blockchain.getBlockHashDecimals"),
      Route("GET", <<Lit("block-header"), Param("blockhash")>>, "blockchain.getBlockHeader"),
      Route("GET", <<Lit("block-stats"), Param("height")>>, "blockchain.getBlockStats"),
      Route("GET", <<Lit("chain-tips")>>, "blockchain.getChainTips"),
      Route("GET", <<Lit("chain-tx-stats")>>, "blockchain.getChainTxStats"),
      Route("GET", <<Lit("difficulty")>>, "blockchain.getDifficulty"),
      Route("GET", <<Lit("mempool"), Lit("ancestors"), Param("txid")>>, "blockchain.getMempoolAncestors"),
      Route("GET", <<Lit("mempool"), Lit("descendants"), Param("txid")>>, "blockchain.getMempoolDescendants"),
      Route("GET", <<Lit("mempool"), Lit("entry"), Param("txid")>>, "blockchain.getMempoolEntry"),
      Route("GET", <<Lit("mempool"), Lit("info")>>, "blockchain.getMempoolInfo"),
      Route("GET", <<Lit("mempool"), Lit("raw")>>, "blockchain.getRawMempool"),
      Route("GET", <<Lit("txout"), Param("txid"), Param("index")>>, "blockchain.getTxOut"),
      Route("GET", <<Lit("txout-proof"), Param("txid")>>, "blockchain.getTxOutProof"),
      Route("POST", <<Lit("scan-utxos")>>, "blockchain.scanUTXOSet"),
      Route("POST", <<Lit("verify-txout-proof")>>, "blockchain.verifyTxOutProof")>>

networkRouter ==
    <<Route("GET", <<Lit("info")>>, "network.getNetworkInfo"),
      Route("GET", <<Lit("connection-count")>>, "network.getConnectionCount"),
      Route("GET", <<Lit("net-totals")>>, "network.getNetTotals"),
      Route("GET", <<Lit("peer-info")>>, "network.getPeerInfo"),
      Route("GET", <<Lit("node-addresses")>>, "network.getNodeAddresses")>>

controlRouter ==
    <<Route("GET", <<Lit("rpc-info")>>, "control.getRpcInfo")>>

miningRouter ==
    <<Route("GET", <<Lit("info")>>, "mining.getMiningInfo"),
      Route("GET", <<Lit("network-hashrate")>>, "mining.getNetworkHashRate")>>

walletRouter ==
    <<Route("GET", <<Lit("balance-by-address")>>, "wallet.getBalanceByAddress")>>

utilRouter ==
    <<Route("GET", <<Lit("estimate-smart-fee")>>, "util.estimateSmartFee"),
      Route("GET", <<Lit("estimate-smart-fee")>>, "util.estimateSmartFee"),
      Route("GET", <<Lit("index-info")>>, "util.getIndexInfo"),
      Route("GET", <<Lit("validate-address")>>, "util.validateAddress"),
      Route("GET", <<Lit("hash-to-decimal")>>, "util.getBlockHashDecimals"),
      Route("POST", <<Lit("get-descriptor-info")>>, "util.getDescriptorInfo"),
      Route("POST", <<Lit("create-multisig")>>, "util.createMultisig"),
      Route("POST", <<Lit("derive-address")>>, "util.deriveAddresses"),
      Route("POST", <<Lit("verify-address")>>, "util.verifyMessage")>>

\* app.use(path, router), in the order of the application file
Mounts ==
    <<[at |-> "blockchain", router |-> blockchainRouter],
      [at |-> "control", router |-> controlRouter],
      [at |-> "mining", router |-> miningRouter],
      [at |-> "network", router |-> networkRouter]>>

\* The method, path and handler under each @swagger annotation
SwaggerPaths ==
    {Route("GET", <<Lit("blockchain"), Lit("info")>>, "blockchain.getChainInfo"),
     Route("GET", <<Lit("blockchain"), Lit("best-block-hash")>>, "blockchain.getGetBestblockhash"),
     Route("GET", <<Lit("blockchain"), Lit("block-count")>>, "blockchain.getBlockCount"),
     Route("GET", <<Lit("blockchain"), Lit("block"), Param("blockhash")>>, "blockchain.getBlock"),
     Route("GET", <<Lit("blockchain"), Lit("blockhash"), Param("count")>>, "blockchain.getBlockHash"),
     Route("GET", <<Lit("blockchain"), Lit("block-hash-decimals"), Param("height")>>, "blockchain.getBlockHashDecimals"),
     Route("GET", <<Lit("blockchain"), Lit("block-header"), Param("blockhash")>>, "blockchain.getBlockHeader"),
     Route("GET", <<Lit("blockchain"), Lit("block-stats"), Param("height")>>, "blockchain.getBlockStats"),
     Route("GET", <<Lit("blockchain"), Lit("chain-tips")>>, "blockchain.getChainTips"),
     Route("GET", <<Lit("blockchain"), Lit("chain-tx-stats")>>, "blockchain.getChainTxStats"),
     Route("GET", <<Lit("blockchain"), Lit("difficulty")>>, "blockchain.getDifficulty"),
     Route("GET", <<Lit("blockchain"), Lit("mempool"), Lit("ancestors"), Param("txid")>>, "blockchain.getMempoolAncestors"),
     Route("GET", <<Lit("blockchain"), Lit("mempool"), Lit("descendants"), Param("txid")>>, "blockchain.getMempoolDescendants"),
     Route("GET", <<Lit("blockchain"), Lit("mempool"), Lit("entry"), Param("txid")>>, "blockchain.getMempoolEntry"),
     Route("GET", <<Lit("blockchain"), Lit("mempool"), Lit("info")>>, "blockchain.getMempoolInfo"),
     Route("GET", <<Lit("blockchain"), Lit("mempool"), Lit("raw")>>, "blockchain.getRawMempool"),
     Route("GET", <<Lit("blockchain"), Lit("txout"), Param("txid"), Param("index")>>, "blockchain.getTxOut"),
     Route("GET", <<Lit("blockchain"), Lit("txout-proof"), Param("txid")>>, "blockchain.getTxOutProof"),
     Route("POST", <<Lit("blockchain"), Lit("scan-utxos")>>, "blockchain.scanUTXOSet"),
     Route("POST", <<Lit("blockchain"), Lit("verify-txout-proof")>>, "blockchain.verifyTxOutProof"),
     Route("GET", <<Lit("mining"), Lit("info")>>, "mining.getMiningInfo"),
     Route("GET", <<Lit("mining"), Lit("network-hashrate")>>, "mining.getNetworkHashRate"),
     Route("GET", <<Lit("network"), Lit("connection-count")>>, "network.getConnectionCount"),
     Route("GET", <<Lit("network"), Lit("net-totals")>>, "network.getNetTotals"),
     Route("GET", <<Lit("network"), Lit("info")>>, "network.getNetworkInfo"),
     Route("GET", <<Lit("network"), Lit("peers")>>, "network.getPeerInfo"),
     Route("GET", <<Lit("network"), Lit("node-addresses")>>, "network.getNodeAddresses"),
     Route("GET", <<Lit("control"), Lit("rpc-info")>>, "control.getRpcInfo"),
     Route("GET", <<Lit("wallet"), Lit("get-balance-by-address")>>, "wallet.getBalanceByAddress"),
     Route("POST", <<Lit("util"), Lit("create-multisig")>>, "util.createMultisig"),
     Route("POST", <<Lit("util"), Lit("derive-addresses")>>, "util.deriveAddresses"),
     Route("GET", <<Lit("util"), Lit("estimate-smart-fee")>>, "util.estimateSmartFee"),
     Route("POST", <<Lit("util"), Lit("get-descriptor-info")>>, "util.getDescriptorInfo"),
     Route("GET", <<Lit("util"), Lit("index-info")>>, "util.getIndexInfo"),
     Route("GET", <<Lit("wallet"), Lit("validate-address")>>, "util.validateAddress"),
     Route("POST", <<Lit("wallet"), Lit("verify-message")>>, "util.verifyMessage"),
     Route("GET", <<Lit("util"), Lit("validate-address")>>, "util.validateAddress"),
     Route("POST", <<Lit("util"), Lit("verify-message")>>, "util.verifyMessage"),
     Route("GET", <<Lit("util"), Lit("hash-to-decimal")>>, "util.getBlockHashDecimals")}

\* The URL a client builds from a documented path: a value for each parameter
UrlOf(path) ==
    [i \in 1..Len(path) |-> IF path[i].seg = "param" THEN "v" ELSE path[i].name]

\* express matches a route's pattern segment by segment.
Matches(pattern, url) ==
    /\ Len(pattern) = Len(url)
    /\ \A i \in 1..Len(pattern) : pattern[i].seg = "param" \/ pattern[i].name = url[i]

RECURSIVE FirstRoute(_, _, _)
\* The handler of the first route of the router that takes the request
FirstRoute(router, method, url) ==
    IF router = <<>> THEN "none"
    ELSE IF Head(router).method = method /\ Matches(Head(router).path, url)
    THEN Head(router).handler
    ELSE FirstRoute(Tail(router), method, url)

RECURSIVE DispatchFrom(_, _, _)
\* The app's stack: the first mount under whose path a route takes the
\* request; "none" when the request falls through every mount.
DispatchFrom(mounts, method, url) ==
    IF mounts = <<>> \/ url = <<>> THEN "none"
    ELSE IF Head(mounts).at = Head(url)
            /\ FirstRoute(Head(mounts).router, method, Tail(url)) # "none"
    THEN FirstRoute(Head(mounts).router, method, Tail(url))
    ELSE DispatchFrom(Tail(mounts), method, url)

Dispatch(method, url) == DispatchFrom(Mounts, method, url)

\* A client calls a documented endpoint: express runs the handler the stack
\* gives, or answers 404 itself when no route takes the request.
RouteRequest(r) ==
    /\ pc[r] = "idle"
    /\ \E d \in SwaggerPaths :
          LET h == Dispatch(d.method, UrlOf(d.path))
          IN  IF h = "none"
              THEN /\ req' = [req EXCEPT ![r] = [ep |-> h, raw |-> [extra |-> FALSE],
                                                 doc |-> d]]
                   /\ Send(r, 404, Text("Cannot " \o d.method))
                   /\ pc' = [pc EXCEPT ![r] = "done"]
              ELSE /\ \E raw \in RawInputs(h) :
                         req' = [req EXCEPT ![r] = [ep |-> h, raw |-> raw, doc |-> d]]
                   /\ pc' = [pc EXCEPT ![r] = "handler"]
                   /\ UNCHANGED res
    /\ UNCHANGED <<envConfig, posts, upstream, err, log, codecVars>>

NextRouting ==
    \E r \in Reqs :
        \/ RouteRequest(r)
        \/ HandlerStart(r)
        \/ UpstreamAnswer(r)
        \/ HandlerResume(r)
        \/ ErrorHandler(r)
        \/ Recycle(r)

SpecRouting == Init /\ [][NextRouting]_vars

(***************************************************************************)
(* Properties of the codec (SpecCodec)                                     *)
(***************************************************************************)

IsHexString(s) == s # <<>> /\ \A i \in 1..Len(s) : IsHexChar(s[i])

\* The last i characters of s, for i <= Len(s)
LastChars(s, i) == SubSeq(s, Len(s) - i + 1, Len(s))

RECURSIVE StripZeros(_)
StripZeros(ds) ==
    IF Len(ds) > 1 /\ Head(ds) = 0 THEN StripZeros(Tail(ds)) ELSE ds

\* A hexadecimal string as a number: its digit values, most significant
\* first, without leading zeros.
HexNumber(s) == StripZeros([i \in 1..Len(s) |-> HexVal(s[i])])

RECURSIVE TimesTenPlus16(_, _)
\* digits in base 16, least significant first: digits * 10 + carry
TimesTenPlus16(rev, carry) ==
    IF rev = <<>>
    THEN IF carry = 0 THEN <<>> ELSE <<carry % 16>> \o TimesTenPlus16(<<>>, carry \div 16)
    ELSE LET t == Head(rev) * 10 + carry
         IN  <<t % 16>> \o TimesTenPlus16(Tail(rev), t \div 16)

RECURSIVE DecimalNumberRev(_, _)
DecimalNumberRev(dec, acc) ==
    IF dec = <<>> THEN acc
    ELSE DecimalNumberRev(Tail(dec), TimesTenPlus16(acc, DecVal(Head(dec))))

\* A decimal string as a number, in the same form as HexNumber: read digit by
\* digit in base 16 arithmetic.
DecimalNumber(dec) ==
    LET rev == DecimalNumberRev(dec, <<>>)
    IN  IF rev = <<>> THEN <<0>> ELSE Reverse(rev)

\* A decimal string as toString() writes it: digits only, no leading zero,
\* no sign, no exponent.
IsPlainDecimal(dec) ==
    /\ IsDigits(dec)
    /\ (Len(dec) > 1 => Head(dec) # "0")

\* The entry of the table for suffix length i, if there is one
EntriesFor(table, i) == {j \in DOMAIN table : table[j].len = i}

Min(a, b) == IF a < b THEN a ELSE b

\* C2: for a hexadecimal string h of length >= 1 and every i in
\* 1..min(16, len(h)), the table has one entry for suffix length i, and its
\* decimal string denotes exactly the number the last i characters of h
\* denote in base 16, at every magnitude up to 2^64 - 1.
C2_SuffixDecimalExact ==
    (decimals.called /\ IsHexString(hexHash)) =>
        /\ ~decimals.threw
        /\ \A i \in 1..Min(MaxSuffixLen, Len(hexHash)) :
              /\ Cardinality(EntriesFor(decimals.table, i)) = 1
              /\ \A j \in EntriesFor(decimals.table, i) :
                    /\ IsPlainDecimal(decimals.table[j].decimal)
                    /\ DecimalNumber(decimals.table[j].decimal)
                         = HexNumber(LastChars(hexHash, i))

\* C2's case: sixteen f, whose value 2^64 - 1 is far above 2^53.
C2_Witness ==
    /\ decimals.called
    /\ hexHash = Rep("f", 16)
    /\ \E j \in DOMAIN decimals.table :
          /\ decimals.table[j].len = 16
          /\ decimals.table[j].decimal =
                <<"1", "8", "4", "4", "6", "7", "4", "4", "0", "7",
                  "3", "7", "0", "9", "5", "5", "1", "6", "1", "5">>

\* C3, as claimed: for an input shorter than 16 characters the table has
\* entries only for the suffix lengths 1..len(h).
C3_NoEntryBeyondLength ==
    (decimals.called /\ ~decimals.threw /\ Len(hexHash) < MaxSuffixLen) =>
        \A j \in DOMAIN decimals.table : decimals.table[j].len <= Len(hexHash)

\* C3, amended: for a hexadecimal input of 1 to 15 characters the table still
\* has one entry for each of the 16 suffix lengths; every entry for a suffix
\* length greater than len(h) holds the decimal of the whole of h (the
\* extraction saturates: no digit is added).
C3_EntriesSaturate ==
    (decimals.called /\ IsHexString(hexHash) /\ Len(hexHash) < MaxSuffixLen) =>
        /\ ~decimals.threw
        /\ \A i \in 1..MaxSuffixLen : Cardinality(EntriesFor(decimals.table, i)) = 1
        /\ \A j \in DOMAIN decimals.table :
              decimals.table[j].len > Len(hexHash) =>
                  DecimalNumber(decimals.table[j].decimal) = HexNumber(hexHash)

\* C3's case: a three-character input, whose entry for suffix length 16 is
\* the value of the three characters.
C3_Witness ==
    /\ decimals.called
    /\ hexHash = <<"f", "f", "f">>
    /\ \E j \in DOMAIN decimals.table :
          /\ decimals.table[j].len = 16
          /\ decimals.table[j].decimal = <<"4", "0", "9", "5">>

(***************************************************************************)
(* Properties of the gateway (Spec, FairSpec)                              *)
(***************************************************************************)

\* Every constraint the request's input violates
ReqViolations(r) ==
    IF req[r].ep \in SchemaEndpoints
    THEN AllViolations(Schema(req[r].ep), PreValidate(req[r].ep, req[r].raw))
    ELSE <<>>

\* The handler of r has run its validation.
Validated(r) == pc[r] \in {"awaiting", "settled", "error", "done"}

IsApiError(e, status) == e.k = "error" /\ e.name = "ApiError" /\ e.status = Num(status)

\* r has been answered, once, with this status and this success flag.
Answered(r, status, success) ==
    /\ pc[r] = "done"
    /\ Len(res[r]) = 1
    /\ res[r][1].status = status
    /\ res[r][1].body.success = success

\* C1: a request whose input fails the validation ends in the 400 ApiError
\* and no post is issued for it; a post is issued only for a request whose
\* input passed the validation.
C1_ValidationBeforePost ==
    \A r \in Reqs :
        /\ posts[r] # <<>> => ReqViolations(r) = <<>>
        /\ (Validated(r) /\ ReqViolations(r) # <<>>) =>
              /\ posts[r] = <<>>
              /\ IsApiError(err[r], 400)
              /\ pc[r] \in {"error", "done"}

\* C1's case: a rejected multisig request, answered 400 with nothing posted.
C1_Witness ==
    \E r \in Reqs :
        /\ req[r].ep = "util.createMultisig"
        /\ ReqViolations(r) # <<>>
        /\ Answered(r, 400, FALSE)
        /\ posts[r] = <<>>

\* C4, as claimed: the details of the validation error list every violated
\* constraint of the input.
C4_DetailsListEveryViolation ==
    \A r \in Reqs :
        (Validated(r) /\ ReqViolations(r) # <<>> /\ IsApiError(err[r], 400)) =>
            err[r].details = Arr(ReqViolations(r))

\* The endpoints whose documented data is the result of the forwarded call
ResultEndpoints ==
    {ep \in Endpoints : ForwardsRpc(ep)}
        \ {"blockchain.getBlockHashDecimals", "wallet.getBalanceByAddress"}

IsEnvelope(data) == data.k = "object" /\ "result" \in DOMAIN data.f

\* C5, as claimed: a 2xx answer carrying a JSON-RPC envelope is answered 200
\* with {success: true, data: <the envelope's result>}, whatever the endpoint.
C5_DataIsResult ==
    \A r \in Reqs :
        (/\ pc[r] = "done"
         /\ req[r].ep \in ResultEndpoints
         /\ upstream[r] # Undefined
         /\ upstream[r].kind = "response"
         /\ ValidateStatus(upstream[r].status)
         /\ IsEnvelope(upstream[r].data)) =>
            res[r] = <<[status |-> 200,
                        body   |-> [success |-> TRUE, data |-> upstream[r].data.f.result]]>>

\* C6, as claimed: a request that waits for the node is eventually answered.
C6_AwaitEnds ==
    \A r \in Reqs : (pc[r] = "awaiting") ~> (pc[r] = "done")

\* C7, as claimed: a 2xx answer whose body is no JSON-RPC envelope ends in a
\* 502 failure.
C7_MalformedIs502 ==
    \A r \in Reqs :
        (/\ pc[r] = "done"
         /\ upstream[r] # Undefined
         /\ upstream[r].kind = "response"
         /\ ValidateStatus(upstream[r].status)
         /\ upstream[r].data \in MalformedBodies) =>
            Answered(r, 502, FALSE)

ConnectionFailed(o) ==
    /\ o # Undefined
    /\ o.kind = "error"
    /\ o.request
    /\ o.code \in {"ECONNREFUSED", "EHOSTUNREACH"}

GatewayStatuses == {200, 400, 500, 502, 503, 504}

RemoteFailure(o) ==
    /\ o # Undefined
    /\ o.kind = "response"
    /\ ~ValidateStatus(o.status)

C10_RemoteStatusPassedThrough ==
    \A r \in Reqs :
        (pc[r] \in {"error", "done"} /\ RemoteFailure(upstream[r])) =>
            /\ IsApiError(err[r], upstream[r].status)
            /\ err[r].code = Text("REMOTE_" \o ToString(upstream[r].status))
            /\ (pc[r] = "done" =>
                   /\ Answered(r, upstream[r].status, FALSE)
                   /\ res[r][1].body.error.status = upstream[r].status
                   /\ res[r][1].body.error.code = Text("REMOTE_" \o ToString(upstream[r].status)))

C10_Witness ==
    \E r \in Reqs :
        /\ RemoteFailure(upstream[r])
        /\ upstream[r].status = 401
        /\ Answered(r, 401, FALSE)
        /\ res[r][1].body.error.code = Text("REMOTE_401")

TimedOut(o) ==
    /\ o # Undefined
    /\ o.kind = "error"
    /\ o.code = "ECONNABORTED"

\* C11: when the transport fails with code ECONNABORTED and no response, the
\* failure is the ApiError of status 504 and the client is answered 504 with
\* success false.
C11_TimeoutIs504 ==
    \A r \in Reqs :
        (pc[r] \in {"error", "done"} /\ TimedOut(upstream[r])) =>
            /\ IsApiError(err[r], 504)
            /\ (pc[r] = "done" => Answered(r, 504, FALSE))

C11_Witness ==
    \E r \in Reqs :
        /\ TimedOut(upstream[r])
        /\ Answered(r, 504, FALSE)
        /\ res[r][1].body.error.status = 504

\* C12, as claimed: every failure body is {success: false, error: {status,
\* code, message, details}} and nothing else: no stack and no req, in every
\* NODE_ENV.
C12_FailureBodyHasNoStack ==
    \A r \in Reqs : \A i \in 1..Len(res[r]) :
        res[r][i].body.success = FALSE =>
            /\ DOMAIN res[r][i].body.error = {"status", "code", "message", "details"}
            /\ ~res[r][i].body.stack
            /\ ~res[r][i].body.req

\* The call of r was rejected: an answer outside 2xx, or no answer.
UpstreamFailed(r) == upstream[r] # Undefined /\ AxiosSettle(upstream[r]).rejected

\* C13: at most one post is issued for a request, and a failed call is not
\* issued again: from the rejection the request goes to the error handler
\* and from there to its response, with no further post.
C13_AtMostOnePost ==
    /\ [](\A r \in Reqs : Len(posts[r]) <= 1)
    /\ [][\A r \in Reqs :
            (pc[r] \in {"settled", "error"} /\ UpstreamFailed(r)) =>
                /\ posts'[r] = posts[r]
                /\ pc'[r] = IF pc[r] = "settled" THEN "error" ELSE "done"]_vars

\* C13's case: a refused call, answered as a failure after its one post.
C13_Witness ==
    \E r \in Reqs :
        /\ UpstreamFailed(r)
        /\ upstream[r].code = "ECONNREFUSED"
        /\ Len(posts[r]) = 1
        /\ Answered(r, 503, FALSE)

\* C14: with two requests in flight, request 2 is validated, forwarded and
\* answered whatever becomes of request 1, whose call may stay unanswered
\* for ever.
C14_OtherRequestCompletes ==
    (pc[2] = "handler") ~> (pc[2] = "done" /\ Len(res[2]) = 1)

\* C14's case: request 2 was forwarded and answered 200 while request 1
\* still waits for the node.
C14_Witness ==
    /\ pc[1] = "awaiting"
    /\ posts[1] # <<>>
    /\ posts[2] # <<>>
    /\ Answered(2, 200, TRUE)

\* The failure responses sent for r
FailureResponses(r) == {i \in 1..Len(res[r]) : res[r][i].body.success = FALSE}

\* C15: a request that ends in a failure (a validation error, an upstream
\* failure or any other exception) has both one record handed to
\* logger.error and one failure response, about the same error; there is no
\* log record without a response and no failure response without a record.
C15_FailureLoggedAndAnswered ==
    \A r \in Reqs :
        /\ Len(log[r]) = Cardinality(FailureResponses(r))
        /\ \A i \in 1..Len(log[r]) :
              /\ res[r][i].body.success = FALSE
              /\ log[r][i].error = res[r][i].body.error
        /\ (pc[r] = "done" /\ err[r] # Undefined) =>
              /\ Len(log[r]) = 1
              /\ Len(res[r]) = 1
              /\ res[r][1].status = log[r][1].error.status

\* C15's case: an exception that is no ApiError (a 2xx answer with the body
\* null), logged and answered 500.
C15_Witness ==
    \E r \in Reqs :
        /\ err[r] # Undefined
        /\ err[r].name = "TypeError"
        /\ Len(log[r]) = 1
        /\ Answered(r, 500, FALSE)

\* A getBlock request whose query holds nothing but, possibly, verbosity
IsGetBlock(r) == req[r].ep = "blockchain.getBlock" /\ ~req[r].raw.extra

ValidHash(x) == x.k = "string" /\ Len(x.s) = 64

\* The verbosities the node knows, as they arrive in the query
Verbosities == {<<Str(<<"0">>), 0>>, <<Str(<<"1">>), 1>>, <<Str(<<"2">>), 2>>}

\* The one post of r is the call of method with params.
Forwarded(r, method, params) ==
    posts[r] = <<[jsonrpc |-> "1.0", id |-> "curltest", method |-> method, params |-> params]>>

\* r was rejected by the validation: the 400 ApiError, nothing posted.
Rejected400(r) ==
    /\ posts[r] = <<>>
    /\ IsApiError(err[r], 400)
    /\ (pc[r] = "done" => Answered(r, 400, FALSE))

\* The node answered r's call 2xx with a JSON-RPC envelope.
EnvelopeAnswer(r) ==
    /\ upstream[r] # Undefined
    /\ upstream[r].kind = "response"
    /\ ValidateStatus(upstream[r].status)
    /\ IsEnvelope(upstream[r].data)

\* C16: getBlock with a 64-character hash and no verbosity forwards getblock
\* with params [hash, 1]; a verbosity 0, 1 or 2 is forwarded, as a number, in
\* the second place; any other verbosity is rejected with 400; and the
\* node's result is returned as {success: true, data: result}.
C16_GetBlockVerbosity ==
    \A r \in Reqs :
        (IsGetBlock(r) /\ Validated(r)) =>
            LET hash == req[r].raw.blockhash
                v    == req[r].raw.verbosity
            IN  /\ (ValidHash(hash) /\ v = Undefined) =>
                      Forwarded(r, "getblock", <<hash, Num(1)>>)
                /\ \A q \in Verbosities :
                      (ValidHash(hash) /\ v = q[1]) =>
                          Forwarded(r, "getblock", <<hash, Num(q[2])>>)
                /\ (v # Undefined /\ v \notin {q[1] : q \in Verbosities}) => Rejected400(r)
                /\ (pc[r] = "done" /\ EnvelopeAnswer(r)) =>
                      res[r] = <<[status |-> 200,
                                  body   |-> [success |-> TRUE,
                                              data    |-> upstream[r].data.f.result]]>>

\* C16's case: no verbosity, [hash, 1] forwarded, the node's result returned.
C16_Witness ==
    \E r \in Reqs :
        /\ IsGetBlock(r)
        /\ req[r].raw.verbosity = Undefined
        /\ Forwarded(r, "getblock", <<H64, Num(1)>>)
        /\ EnvelopeAnswer(r)
        /\ Answered(r, 200, TRUE)
        /\ res[r][1].body.data = Num(7)

\* nRequired is a number outside 1..20.
NRequiredOutOfRange(x) == x.k = "number" /\ (x.n < 1 \/ x.n > 20)

RequiredHashes ==
    {<<"blockchain.getBlock", "blockhash">>, <<"blockchain.getBlockHeader", "blockhash">>,
     <<"blockchain.getMempoolEntry", "txid">>, <<"blockchain.getMempoolAncestors", "txid">>,
     <<"blockchain.getMempoolDescendants", "txid">>, <<"blockchain.getTxOut", "txid">>,
     <<"blockchain.getTxOutProof", "txid">>}

\* The details name a violation of the length of key.
ReportsLength(details, key) ==
    /\ details.k = "array"
    /\ \E i \in 1..Len(details.a) :
          details.a[i].path = key /\ details.a[i].type = "string.length"

\* C18: where a 64-character hash is required, a string of 63 or 65
\* characters is rejected with the 400 whose details report the length
\* violation of that key, and nothing is posted (so no shortened or padded
\* value reaches the node).
C18_HashLength ==
    \A r \in Reqs : \A q \in RequiredHashes :
        (/\ req[r].ep = q[1]
         /\ Validated(r)
         /\ req[r].raw[q[2]].k = "string"
         /\ Len(req[r].raw[q[2]].s) \in {63, 65}) =>
            /\ Rejected400(r)
            /\ ReportsLength(err[r].details, q[2])
            /\ (pc[r] = "done" => ReportsLength(res[r][1].body.error.details, q[2]))

\* C18's case: getMempoolEntry with a txid of 65 characters.
C18_Witness ==
    \E r \in Reqs :
        /\ req[r].ep = "blockchain.getMempoolEntry"
        /\ req[r].raw.txid = H65
        /\ posts[r] = <<>>
        /\ Answered(r, 400, FALSE)
        /\ ReportsLength(res[r][1].body.error.details, "txid")

\* The boolean query parameters: endpoint, key, method and documented default
BooleanParams ==
    {<<"blockchain.getBlockHeader", "verbose", "getblockheader", TRUE>>,
     <<"blockchain.getMempoolAncestors", "verbose", "getmempoolancestors", TRUE>>,
     <<"blockchain.getMempoolDescendants", "verbose", "getmempooldescendants", TRUE>>,
     <<"blockchain.getRawMempool", "verbose", "getrawmempool", FALSE>>,
     <<"blockchain.getTxOut", "include_mempool", "gettxout", TRUE>>}

\* What a query value stands for: the two literals, or else the default
BooleanOf(x, default) ==
    IF x = Str(<<"t", "r", "u", "e">>) THEN TRUE
    ELSE IF x = Str(<<"f", "a", "l", "s", "e">>) THEN FALSE
    ELSE default

\* C19: for each boolean query parameter, "true" forwards true, "false"
\* forwards false, and absence or any other string forwards the endpoint's
\* default (true, and false for getRawMempool): the value is the last of the
\* params posted, and the parameter never makes the validation fail.
C19_BooleanQuery ==
    \A r \in Reqs : \A q \in BooleanParams :
        (req[r].ep = q[1] /\ Validated(r)) =>
            LET b == Bool(BooleanOf(req[r].raw[q[2]], q[4]))
            IN  /\ posts[r] # <<>> =>
                      /\ Len(posts[r]) = 1
                      /\ posts[r][1].method = q[3]
                      /\ posts[r][1].params[Len(posts[r][1].params)] = b
                /\ q[1] = "blockchain.getRawMempool" => Forwarded(r, q[3], <<b>>)
                /\ (q[1] = "blockchain.getBlockHeader" /\ ValidHash(req[r].raw.blockhash)) =>
                      Forwarded(r, q[3], <<req[r].raw.blockhash, b>>)

\* C19's case: "false" forwarded as false where the default is true.
C19_Witness ==
    \E r \in Reqs :
        /\ req[r].ep = "blockchain.getTxOut"
        /\ req[r].raw.include_mempool = Str(<<"f", "a", "l", "s", "e">>)
        /\ posts[r] # <<>>
        /\ posts[r][1].params[3] = Bool(FALSE)
        /\ pc[r] = "done"

\* C20, as claimed: every entry of the table carries the suffix's hex string
\* and its decimal string.
C20_EntryHasHexAndDecimal ==
    (decimals.called /\ ~decimals.threw) =>
        \A j \in DOMAIN decimals.table :
            /\ "decimal" \in DOMAIN decimals.table[j]
            /\ "hex" \in DOMAIN decimals.table[j]
            /\ decimals.table[j].hex = HexSlice(hexHash, decimals.table[j].len)

\* The keys of the table
TableKeys == {decimals.table[j].range : j \in DOMAIN decimals.table}

\* C21, as claimed: the table is keyed by the value-range labels of the
\* documentation, among them "0_255" for the last 2 characters and
\* "0_4294967295" for the last 8.
C21_KeyedByRangeLabels ==
    (decimals.called /\ ~decimals.threw) =>
        /\ {"0_15", "0_255", "0_4095", "0_65535", "0_4294967295",
            "0_18446744073709551615"} \subseteq TableKeys
        /\ \A j \in DOMAIN decimals.table :
              /\ decimals.table[j].range = "0_255" <=> decimals.table[j].len = 2
              /\ decimals.table[j].range = "0_4294967295" <=> decimals.table[j].len = 8

\* The hash of r is a string of hexadecimal characters.
HasHexHash(r) == req[r].raw.hash.k = "string" /\ IsHexString(req[r].raw.hash.s)

\* C22, as claimed: hash-to-decimal with a missing hash, or with a hash that
\* is no hexadecimal string, is answered 400.
C22_BadHashIs400 ==
    \A r \in Reqs :
        (/\ req[r].ep = "util.getBlockHashDecimals"
         /\ pc[r] = "done"
         /\ ~HasHexHash(r)) => Answered(r, 400, FALSE)

\* The count of a getNodeAddresses request, as Joi converts it
CountOf(r) == NumberOfString(req[r].raw.count.s)

\* The count given is an integer from 1 to 1000.
CountInRange(r) ==
    /\ req[r].raw.count # Undefined
    /\ CountOf(r).ok
    /\ ~CountOf(r).v.frac
    /\ CountOf(r).v.n \in 1..1000

\* C26: getNodeAddresses forwards getnodeaddresses with params [10] when no
\* count is given and with the count itself when it is an integer from 1 to
\* 1000; any other count is not forwarded at all (the request is rejected
\* with 400), so that no count above 1000 reaches the node.
C26_NodeAddressesCount ==
    \A r \in Reqs :
        (req[r].ep = "network.getNodeAddresses" /\ Validated(r)) =>
            /\ req[r].raw.count = Undefined => Forwarded(r, "getnodeaddresses", <<Num(10)>>)
            /\ CountInRange(r) => Forwarded(r, "getnodeaddresses", <<CountOf(r).v>>)
            /\ (req[r].raw.count # Undefined /\ ~CountInRange(r)) => Rejected400(r)
            /\ \A i \in DOMAIN posts[r] :
                  /\ Len(posts[r][i].params) = 1
                  /\ posts[r][i].params[1].k = "number"
                  /\ posts[r][i].params[1].n <= 1000

\* A count of 1001 was answered 400 with nothing posted.
C26_Witness ==
    \E r \in Reqs :
        /\ req[r].ep = "network.getNodeAddresses"
        /\ req[r].raw.count = Str(<<"1", "0", "0", "1">>)
        /\ Answered(r, 400, FALSE)
        /\ posts[r] = <<>>

\* C27: getChainTxStats forwards a supplied blockhash at the second position
\* of the params of getchaintxstats (nblocks, blockhash), also when nblocks is
\* absent, and never at the first.
C27_BlockhashSecond ==
    \A r \in Reqs :
        (/\ req[r].ep = "blockchain.getChainTxStats"
         /\ req[r].raw.blockhash # Undefined) =>
            \A i \in DOMAIN posts[r] :
                /\ Len(posts[r][i].params) >= 2
                /\ posts[r][i].params[2] = req[r].raw.blockhash
                /\ posts[r][i].params[1] # req[r].raw.blockhash

\* C29: a request gets at most one response, and gets it when its handling
\* ends: the 200 success envelope from the handler when nothing was thrown,
\* the failure envelope from errorResponseHandler when something was; never
\* both and never one of them twice.
C29_OneResponse ==
    \A r \in Reqs :
        /\ Len(res[r]) <= 1
        /\ pc[r] # "done" => res[r] = <<>>
        /\ pc[r] = "done" =>
              /\ Len(res[r]) = 1
              /\ res[r][1].body.success <=> err[r] = Undefined
              /\ res[r][1].body.success <=> res[r][1].status = 200
              /\ res[r][1].body.success <=> log[r] = <<>>

\* The handler threw after the node's 2xx answer, while building the success
\* body, and the request was answered once.
C29_Witness ==
    \E r \in Reqs :
        /\ pc[r] = "done"
        /\ req[r].ep = "blockchain.getBlockHashDecimals"
        /\ upstream[r] # Undefined /\ ~AxiosSettle(upstream[r]).rejected
        /\ err[r] # Undefined
        /\ Len(res[r]) = 1

\* C30: in production the failure body sent holds neither the error's stack
\* nor the request object, while the record handed to logger.error for the
\* same failure holds both; and an error without status is answered with
\* status 500 and success false.
C30_ProductionBodyWithoutStack ==
    \A r \in Reqs :
        /\ envConfig.NODE_ENV = "production" =>
              \A i \in DOMAIN log[r] :
                  /\ ~res[r][i].body.stack /\ ~res[r][i].body.req
                  /\ log[r][i].stack /\ log[r][i].req
        /\ (pc[r] = "done" /\ err[r] # Undefined /\ ~Truthy(err[r].status)) =>
              /\ Answered(r, 500, FALSE)
              /\ res[r][1].body.error.status = 500

\* In production a SyntaxError, which has no status, was logged and answered.
C30_Witness ==
    \E r \in Reqs :
        /\ envConfig.NODE_ENV = "production"
        /\ pc[r] = "done"
        /\ err[r] # Undefined /\ err[r].name = "SyntaxError"
        /\ Len(log[r]) = 1

(***************************************************************************)
(* Properties of startup (SpecStartup)                                     *)
(***************************************************************************)

\* The server listens: startup ran and did not abort.
Listening == \A r \in Conns : pc[r] \notin {"starting", "aborted"}

IsHostText(x) == x.k = "string" /\ isHostSyntaxValid(x.s)

\* Every configured value is present and well formed, as read from the
\* exported envConfig.
ConfigWellFormed(config) ==
    /\ config.PORT.k = "number"
    /\ config.CORS_CONFIG.k = "string" /\ JsonParses(config.CORS_CONFIG.s)
    /\ IsHostText(config.SELF_HOSTED_BTC_HOST)
    /\ Truthy(config.SELF_HOSTED_BTC_USERNAME)
    /\ Truthy(config.SELF_HOSTED_BTC_PASSWORD)
    /\ config.SWAGGER_SERVERS.k = "array"
    /\ config.SWAGGER_SERVERS.a # <<>>
    /\ \A i \in DOMAIN config.SWAGGER_SERVERS.a : IsHostText(config.SWAGGER_SERVERS.a[i])

\* C23: a missing or malformed configuration value aborts startup before the
\* server listens, so that a listening server has a well-formed
\* configuration and getClient never finds the node's host, user name or
\* password missing.
C23_MalformedConfigAbortsStartup ==
    Listening => (ConfigWellFormed(envConfig) /\ ~MissingNodeConfig(envConfig))

(***************************************************************************)
(* Properties of requests in flight together (SpecConcurrent)              *)
(***************************************************************************)

\* What the handler of request q comes to, when the node's answer to its
\* post (if it posts) is o: computed from q and o alone.
HandlerOutcome(q, o) ==
    LET obj     == PreValidate(q.ep, q.raw)
        details == IF q.ep \in SchemaEndpoints THEN JoiDetails(Schema(q.ep), obj) ELSE <<>>
        value   == JoiValue(Schema(q.ep), obj)
    IN  IF details # <<>>
        THEN Throws(ApiError(400, HTTP_ERR_CODES(400), ValidationMessage(q.ep), Arr(details)))
        ELSE IF ~ForwardsRpc(q.ep) THEN HexSuffixOf(value.hash)
        ELSE IF AxiosSettle(o).rejected THEN Throws(AxiosSettle(o).err)
        ELSE SuccessData(q.ep, AxiosSettle(o).data)

\* The response to request q, from q, o and the process's NODE_ENV.
ResponseTo(q, o, nodeEnv) ==
    LET h == HandlerOutcome(q, o)
    IN  IF h.threw
        THEN [status |-> errorResponseHandler(h.err, nodeEnv).status,
              body   |-> errorResponseHandler(h.err, nodeEnv).sent]
        ELSE [status |-> 200, body |-> [success |-> TRUE, data |-> h.data]]

\* The state kept for request r
OwnState(r) == <<pc[r], req[r], posts[r], upstream[r], err[r], res[r], log[r]>>

\* C24: handling a request leaves envConfig as it is and writes nothing that
\* another request reads: a step changes the state of one request only, and
\* the response to a request is a function of its own input and of the
\* node's answer to its own call (and of the fixed configuration).
C24_NoSharedState ==
    /\ [](\A r \in Conns :
            pc[r] = "done" =>
                res[r] = <<ResponseTo(req[r], upstream[r], envConfig.NODE_ENV)>>)
    /\ [][/\ envConfig' = envConfig
          /\ \E r \in Conns : \A q \in Conns \ {r} : OwnState(q)' = OwnState(q)]_vars

\* Request 1 is answered from a node's answer while request 2, which got a
\* different answer, is still being handled.
C24_Witness ==
    /\ pc[1] = "done" /\ posts[1] # <<>>
    /\ pc[2] = "settled"
    /\ upstream[1] # upstream[2]

(***************************************************************************)
(* Properties of repeated calls of the codec (SpecCodecTwice)              *)
(***************************************************************************)

C28_DocumentedRouteServed ==
    \A r \in Reqs :
        pc[r] # "idle" =>
            /\ req[r].ep = req[r].doc.handler
            /\ \A i \in DOMAIN res[r] : res[r][i].status # 404

====
